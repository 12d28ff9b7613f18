---- MODULE BrowserProofs ----
(***************************************************************************)
(* Proofs about Browser, for any accounts, hosts, files, tasks, terminals  *)
(* and answers: the parts that act on what the user was asked about, the   *)
(* forms, the text editors and the rates, and with AccountShellProofs the  *)
(* types of all parts.  Each part has its inductive invariant and the      *)
(* lemmas that its actions keep it; the theorems are about the behaviours  *)
(* of Browser.                                                             *)
(***************************************************************************)
EXTENDS Browser, AccountShellProofs, TLAPS

-----------------------------------------------------------------------------
(* The trust in the key of a host: HostTrust *)

TrustTypes ==
  /\ Trust!TypeOK
  /\ hostSave \in [step : {"none", "loaded", "checked", "ready"}, addr : Addrs \cup {None},
               old : Trust!Rows \cup {None}]

\* A request under way has read a record.
TrustHaveRead ==
  /\ hostSave.step # "none" => hostSave.addr \in Addrs /\ hostSave.old \in Trust!Rows
  /\ flow.step \in {"probing", "dialing"} => flow.row \in Trust!Rows
  /\ flow.step \in {"asking", "posting", "dialing", "dialed"} => flow.fp \in HostKeys
  /\ link.step = "dialing" => link.row \in Trust!Rows
  /\ job.step = "dialing" => job.row \in Trust!Rows /\ job.row.fp = job.fp

TrustConfirmed(r) == r.fp \in confirmed \cup {None}

\* A key comes into the record by the user's answer only, and a save, a connection or a job
\* has read it there.
TrustFromUser ==
  /\ row # None => TrustConfirmed(row)
  /\ hostSave.step # "none" => TrustConfirmed(hostSave.old)
  /\ flow.step \in {"posting", "dialing", "dialed"} => flow.fp \in confirmed
  /\ link.step = "dialing" => TrustConfirmed(link.row)
  /\ job.step = "dialing" => TrustConfirmed(job.row)

TrustInv ==
  /\ TrustTypes /\ TrustHaveRead /\ TrustFromUser
  /\ Trust!KeysConfirmed /\ Trust!InstalledWhereAsked

LEMMA TrustInitHolds == ASSUME Trust!Assumptions, Trust!Init PROVE TrustInv
<1>1. row \in Trust!Rows /\ row # None /\ row.fp = None
  BY DEF Trust!Init, Trust!Rows, Trust!Fingerprints, Trust!Assumptions
<1>2. /\ hostSave.step = "none" /\ flow.step = "idle" /\ link.step = "none" /\ job.step = "none"
      /\ hostSave \in [step : {"none", "loaded", "checked", "ready"}, addr : Addrs \cup {None},
                   old : Trust!Rows \cup {None}]
      /\ flow \in [step : {"idle", "probing", "asking", "posting", "dialing", "dialed"},
                   row : Trust!Rows \cup {None}, fp : Trust!Fingerprints,
                   previous : Trust!Fingerprints]
      /\ link \in [step : {"none", "dialing"}, row : Trust!Rows \cup {None}]
      /\ job \in [step : {"none", "creating", "pending", "dialing"}, fp : Trust!Fingerprints,
                  row : Trust!Rows \cup {None}]
  BY DEF Trust!Init, Trust!NoSave, Trust!NoFlow, Trust!NoLink, Trust!NoJob, Trust!Fingerprints
<1>3. TrustTypes
  BY <1>1, <1>2 DEF Trust!Init, TrustTypes, Trust!TypeOK, Trust!Assumptions
<1> QED BY <1>1, <1>2, <1>3
           DEF Trust!Init, TrustInv, TrustHaveRead, TrustFromUser, TrustConfirmed,
               Trust!KeysConfirmed, Trust!InstalledWhereAsked

\* What a step that leaves record, requests and history alone keeps.
LEMMA TrustMoveKeeps ==
  ASSUME Trust!Assumptions, TrustInv, NEW a \in Addrs, Trust!Move(a)
  PROVE  TrustInv'
<1>1. machine' \in [Addrs -> HostKeys] /\ moves' \in 0..MaxMoves
  BY DEF Trust!Move, TrustInv, TrustTypes, Trust!TypeOK, Trust!Assumptions
<1> QED BY <1>1
           DEF Trust!Move, Trust!history, TrustInv, TrustTypes, Trust!TypeOK, TrustHaveRead,
               TrustFromUser, TrustConfirmed, Trust!KeysConfirmed, Trust!InstalledWhereAsked

\* hostSave writes a key that it has read.
LEMMA TrustSavesKeep ==
  ASSUME Trust!Assumptions, TrustInv,
         Trust!SaveChecks \/ Trust!SaveReads \/ Trust!SaveWrites \/ Trust!SaveFails
           \/ \E a \in Addrs : Trust!SaveLoads(a)
  PROVE  TrustInv'
<1> USE DEF TrustInv, TrustTypes, TrustHaveRead, TrustFromUser, TrustConfirmed
<1>1. /\ UNCHANGED <<machine, agent, flow, link, job, moves, confirmed, reached, installed>>
      /\ hostSaves' \in 0..MaxSaves
  BY DEF Trust!SaveChecks, Trust!SaveReads, Trust!SaveWrites, Trust!SaveFails, Trust!SaveLoads,
         Trust!spent, Trust!history, Trust!TypeOK, Trust!Assumptions
<1>2. Trust!NoSave.step = "none" /\ Trust!NoSave \in [step : {"none", "loaded", "checked",
                                                              "ready"},
                                               addr : Addrs \cup {None}, old : Trust!Rows
                                                 \cup {None}]
  BY DEF Trust!NoSave
<1>3. CASE hostSave' = Trust!NoSave /\ UNCHANGED row
  BY <1>1, <1>2, <1>3 DEF Trust!TypeOK, Trust!KeysConfirmed, Trust!InstalledWhereAsked
<1>4. ASSUME NEW a \in Addrs, Trust!SaveLoads(a) PROVE TrustInv'
  <2>1. /\ row \in Trust!Rows /\ row # None /\ UNCHANGED row
        /\ hostSave' = [step |-> "loaded", addr |-> a, old |-> row]
    BY <1>4 DEF Trust!SaveLoads, Trust!TypeOK
  <2>2. /\ hostSave'.step = "loaded" /\ hostSave'.addr = a /\ hostSave'.old = row
        /\ hostSave' \in [step : {"none", "loaded", "checked", "ready"}, addr : Addrs
                          \cup {None},
                     old : Trust!Rows \cup {None}]
    BY <2>1
  <2>3. Trust!TypeOK'
    BY <1>1, <2>1, <2>2 DEF Trust!TypeOK
  <2>4. TrustHaveRead' /\ TrustFromUser'
    BY <1>1, <2>1, <2>2
  <2> QED BY <1>1, <2>2, <2>3, <2>4 DEF Trust!KeysConfirmed, Trust!InstalledWhereAsked
<1>5. ASSUME NEW phase \in {"checked", "ready"}, hostSave' = [hostSave EXCEPT !.step = phase],
             hostSave.step # "none", UNCHANGED row
      PROVE  TrustInv'
  <2>1. hostSave'.step = phase /\ hostSave'.addr = hostSave.addr /\ hostSave'.old = hostSave.old
    BY <1>5
  <2> QED BY <1>1, <1>5, <2>1 DEF Trust!TypeOK, Trust!KeysConfirmed, Trust!InstalledWhereAsked
<1>6. CASE Trust!SaveWrites
  <2>1. /\ hostSave.addr \in Addrs /\ hostSave.old \in Trust!Rows
        /\ TrustConfirmed(hostSave.old) /\ hostSave' = Trust!NoSave
        /\ row' = [addr |-> hostSave.addr, fp |-> Trust!Kept]
    BY <1>6 DEF Trust!SaveWrites
  <2>2. Trust!Kept \in Trust!Fingerprints /\ Trust!Kept \in confirmed \cup {None}
    BY <2>1 DEF Trust!Kept, Trust!Rows, Trust!Fingerprints
  <2>3. row' \in Trust!Rows /\ row'.fp = Trust!Kept
    BY <2>1, <2>2 DEF Trust!Rows
  <2> QED BY <1>1, <1>2, <2>1, <2>2, <2>3
             DEF Trust!TypeOK, Trust!KeysConfirmed, Trust!InstalledWhereAsked
<1> QED BY <1>3, <1>4, <1>5, <1>6 DEF Trust!SaveChecks, Trust!SaveReads, Trust!SaveFails

\* A job keeps what it has read, or is given up.
LEMMA TrustJobKept ==
  ASSUME Trust!Assumptions, TrustInv, job' \in {job, Trust!NoJob}, UNCHANGED confirmed
  PROVE  /\ job' \in [step : {"none", "creating", "pending", "dialing"},
                      fp : Trust!Fingerprints,
                      row : Trust!Rows \cup {None}]
         /\ job'.step = "dialing" => /\ job'.row \in Trust!Rows /\ job'.row.fp = job'.fp
                                     /\ TrustConfirmed(job'.row)
         /\ UNCHANGED confirmed
<1>1. Trust!NoJob.step = "none" /\ Trust!NoJob \in [step : {"none", "creating", "pending",
                                                            "dialing"},
                                             fp : Trust!Fingerprints, row : Trust!Rows
                                               \cup {None}]
  BY DEF Trust!NoJob, Trust!Fingerprints
<1> QED BY <1>1 DEF TrustInv, TrustTypes, Trust!TypeOK, TrustHaveRead, TrustFromUser

LEMMA TrustHostKeeps ==
  ASSUME Trust!Assumptions, TrustInv, Trust!HostDelete \/ Trust!AgentEnable
           \/ Trust!AgentDisable PROVE TrustInv'
<1>1. /\ UNCHANGED <<machine, hostSave, flow, link, hostSaves, moves, confirmed, reached,
                     installed>>
      /\ job' \in {job, Trust!NoJob} /\ row' \in {row, None}
      /\ agent' \in {"none", "enabled", "disabled"}
  BY DEF Trust!HostDelete, Trust!AgentEnable, Trust!AgentDisable, Trust!Cancelled, Trust!spent,
         Trust!history
<1> QED BY <1>1, TrustJobKept
           DEF TrustInv, TrustTypes, Trust!TypeOK, TrustHaveRead, TrustFromUser, TrustConfirmed,
               Trust!KeysConfirmed, Trust!InstalledWhereAsked

\* Only the question brings a key into the flow, and only the answer lets it go on.
LEMMA TrustFlowKeeps ==
  ASSUME Trust!Assumptions, TrustInv,
         Trust!Probe \/ Trust!Probed \/ Trust!Confirm \/ Trust!TrustLoads \/ Trust!TrustDials
           \/ Trust!FlowEnds
  PROVE  TrustInv'
<1> USE DEF TrustInv, TrustTypes, TrustHaveRead, TrustFromUser, TrustConfirmed
<1> DEFINE Flow == [step : {"idle", "probing", "asking", "posting", "dialing", "dialed"},
                    row : Trust!Rows \cup {None}, fp : Trust!Fingerprints,
                    previous : Trust!Fingerprints]
<1>1. /\ UNCHANGED <<machine, row, agent, hostSave, link, job, hostSaves, moves, reached,
                     installed>>
      /\ confirmed \subseteq confirmed'
  BY DEF Trust!Probe, Trust!Probed, Trust!Confirm, Trust!TrustLoads, Trust!TrustDials,
         Trust!FlowEnds, Trust!spent, Trust!history
<1>2. /\ flow' \in Flow
      /\ flow'.step \in {"probing", "dialing"} => flow'.row \in Trust!Rows
      /\ flow'.step \in {"asking", "posting", "dialing", "dialed"} => flow'.fp \in HostKeys
      /\ flow'.step \in {"posting", "dialing", "dialed"} => flow'.fp \in confirmed'
  <2>1. flow \in Flow
    BY DEF Trust!TypeOK
  <2>2. Trust!NoFlow \in Flow /\ Trust!NoFlow.step = "idle"
    BY DEF Trust!NoFlow, Trust!Fingerprints
  <2>3. CASE flow' = Trust!NoFlow
    BY <2>2, <2>3
  <2>4. CASE Trust!Probe
    <3>1. row \in Trust!Rows /\ flow' = [flow EXCEPT !.step = "probing", !.row = row]
      BY <2>4 DEF Trust!Probe, Trust!FlowLoads, Trust!TypeOK
    <3>2. /\ flow' \in Flow /\ flow'.step = "probing" /\ flow'.row = row
      BY <2>1, <3>1
    <3> QED BY <3>1, <3>2
  <2>5. CASE Trust!TrustLoads
    <3>1. /\ row \in Trust!Rows /\ flow' = [flow EXCEPT !.step = "dialing", !.row = row]
          /\ flow.step = "posting" /\ confirmed' = confirmed
      BY <2>5 DEF Trust!TrustLoads, Trust!FlowLoads, Trust!TypeOK, Trust!history
    <3>2. /\ flow' \in Flow /\ flow'.step = "dialing" /\ flow'.row = row /\ flow'.fp = flow.fp
      BY <2>1, <3>1
    <3> QED BY <3>1, <3>2
  <2>6. CASE Trust!Probed
    <3>1. /\ flow.row \in Trust!Rows /\ machine[flow.row.addr] \in HostKeys
          /\ flow.row.fp \in Trust!Fingerprints
      BY <2>6 DEF Trust!Probed, Trust!TypeOK, Trust!Rows
    <3>2. CASE flow' = [step |-> "asking", row |-> None, fp |-> machine[flow.row.addr],
                        previous |-> flow.row.fp]
      BY <3>1, <3>2 DEF Trust!Fingerprints
    <3> QED BY <2>3, <2>6, <3>2 DEF Trust!Probed
  <2>7. CASE Trust!Confirm
    <3>1. /\ flow' = [flow EXCEPT !.step = "posting"] /\ flow.step = "asking"
          /\ confirmed' = confirmed \cup {flow.fp}
      BY <2>7 DEF Trust!Confirm
    <3>2. flow' \in Flow /\ flow'.step = "posting" /\ flow'.fp = flow.fp
      BY <2>1, <3>1
    <3> QED BY <3>1, <3>2
  <2>8. CASE Trust!TrustDials
    <3>1. CASE flow' = [flow EXCEPT !.step = "dialed", !.row = None]
      <4>1. flow' \in Flow /\ flow'.step = "dialed" /\ flow'.fp = flow.fp
        BY <2>1, <3>1
      <4>2. flow.step = "dialing" /\ confirmed' = confirmed
        BY <2>8 DEF Trust!TrustDials, Trust!history
      <4> QED BY <4>1, <4>2
    <3> QED BY <2>3, <2>8, <3>1 DEF Trust!TrustDials
  <2> QED BY <2>3, <2>4, <2>5, <2>6, <2>7, <2>8 DEF Trust!FlowEnds
<1> QED BY <1>1, <1>2 DEF Trust!TypeOK, Trust!KeysConfirmed, Trust!InstalledWhereAsked

LEMMA TrustTrustKeeps == ASSUME Trust!Assumptions, TrustInv, Trust!TrustWrites PROVE TrustInv'
<1> USE DEF TrustInv, TrustTypes, TrustHaveRead, TrustFromUser, TrustConfirmed
<1>1. /\ UNCHANGED <<machine, agent, hostSave, link, job, hostSaves, moves, confirmed, reached,
                     installed>>
      /\ flow' = Trust!NoFlow /\ flow.fp \in confirmed /\ flow.fp \in HostKeys
      /\ row' = row \/ (row # None /\ row' = [row EXCEPT !.fp = flow.fp])
  BY DEF Trust!TrustWrites, Trust!spent, Trust!history
<1>2. row' \in Trust!Rows \cup {None} /\ (row' # None => TrustConfirmed(row'))
  <2>1. CASE row # None /\ row' = [row EXCEPT !.fp = flow.fp]
    <3>1. row \in Trust!Rows
      BY <2>1 DEF Trust!TypeOK
    <3>2. row' \in Trust!Rows /\ row'.fp = flow.fp
      BY <1>1, <2>1, <3>1 DEF Trust!Rows, Trust!Fingerprints
    <3> QED BY <1>1, <3>2
  <2> QED BY <1>1, <2>1 DEF Trust!TypeOK
<1>3. /\ Trust!NoFlow.step = "idle"
      /\ Trust!NoFlow \in [step : {"idle", "probing", "asking", "posting", "dialing", "dialed"},
                     row : Trust!Rows \cup {None}, fp : Trust!Fingerprints,
                     previous : Trust!Fingerprints]
  BY DEF Trust!NoFlow, Trust!Fingerprints
<1> QED BY <1>1, <1>2, <1>3 DEF Trust!TypeOK, Trust!KeysConfirmed, Trust!InstalledWhereAsked

\* A credential goes to a machine with a key that was read from the record.
LEMMA TrustDialsConfirmed ==
  ASSUME Trust!Assumptions, TrustInv, NEW r \in Trust!Rows, TrustConfirmed(r), Trust!Dial(r),
         UNCHANGED confirmed
  PROVE  Trust!KeysConfirmed'
<1>1. machine[r.addr] \in HostKeys
  BY DEF TrustInv, TrustTypes, Trust!TypeOK, Trust!Rows
<1>2. machine[r.addr] = r.fp => machine[r.addr] \in confirmed
  BY <1>1 DEF TrustConfirmed, Trust!Assumptions
<1> QED BY <1>2 DEF Trust!Dial, TrustInv, Trust!KeysConfirmed

LEMMA TrustLinksKeep ==
  ASSUME Trust!Assumptions, TrustInv, Trust!ConnectLoads \/ Trust!ConnectDials
  PROVE  TrustInv'
<1> USE DEF TrustInv, TrustTypes, TrustHaveRead, TrustFromUser, TrustConfirmed
<1>1. UNCHANGED <<machine, row, agent, hostSave, flow, job, hostSaves, moves, confirmed,
                  installed>>
  BY DEF Trust!ConnectLoads, Trust!ConnectDials, Trust!spent, Trust!history
<1>2. CASE Trust!ConnectLoads
  <2>1. /\ row \in Trust!Rows /\ row # None /\ link' = [step |-> "dialing", row |-> row]
        /\ UNCHANGED reached
    BY <1>2 DEF Trust!ConnectLoads, Trust!TypeOK, Trust!history
  <2>2. /\ link' \in [step : {"none", "dialing"}, row : Trust!Rows \cup {None}]
        /\ link'.row = row
    BY <2>1
  <2>3. Trust!TypeOK'
    BY <1>1, <2>1, <2>2 DEF Trust!TypeOK
  <2>4. TrustHaveRead' /\ TrustFromUser'
    BY <1>1, <2>1, <2>2
  <2> QED BY <1>1, <2>1, <2>3, <2>4 DEF Trust!KeysConfirmed, Trust!InstalledWhereAsked
<1>3. CASE Trust!ConnectDials
  <2>1. link' = Trust!NoLink /\ Trust!NoLink.step = "none" /\ Trust!NoLink.row = None
    BY <1>3 DEF Trust!ConnectDials, Trust!NoLink
  <2>2. Trust!KeysConfirmed'
    BY <1>1, <1>3, TrustDialsConfirmed DEF Trust!ConnectDials
  <2>3. link' \in [step : {"none", "dialing"}, row : Trust!Rows \cup {None}]
    BY <2>1 DEF Trust!NoLink
  <2> QED BY <1>1, <2>1, <2>2, <2>3 DEF Trust!TypeOK, Trust!InstalledWhereAsked
<1> QED BY <1>2, <1>3

\* A job dials the machine of the record only if its key is still that of the request.
LEMMA TrustJobsKeep ==
  ASSUME Trust!Assumptions, TrustInv, Trust!JobLoads \/ Trust!JobCreated \/ Trust!JobRuns
           \/ Trust!JobDials PROVE TrustInv'
<1> USE DEF TrustInv, TrustTypes, TrustHaveRead, TrustFromUser, TrustConfirmed
<1> DEFINE Job == [step : {"none", "creating", "pending", "dialing"}, fp : Trust!Fingerprints,
                   row : Trust!Rows \cup {None}]
<1>1. /\ UNCHANGED <<machine, row, hostSave, flow, link, hostSaves, moves, confirmed>>
      /\ agent' \in {"none", "enabled", "disabled"}
  BY DEF Trust!JobLoads, Trust!JobCreated, Trust!JobRuns, Trust!JobDials, Trust!spent,
         Trust!history, Trust!TypeOK
<1>2. job \in Job /\ Trust!NoJob \in Job /\ Trust!NoJob.step = "none"
  BY DEF Trust!NoJob, Trust!TypeOK, Trust!Fingerprints
<1>3. /\ job' \in Job
      /\ job'.step = "dialing" => job'.row \in Trust!Rows /\ job'.row.fp = job'.fp
           /\ TrustConfirmed(job'.row)
  <2>1. CASE job' = Trust!NoJob
    BY <1>2, <2>1
  <2>2. CASE Trust!JobLoads
    <3>1. row.fp \in Trust!Fingerprints
      BY <2>2 DEF Trust!JobLoads, Trust!TypeOK, Trust!Rows
    <3> QED BY <2>2, <3>1 DEF Trust!JobLoads
  <2>3. CASE job' = [job EXCEPT !.step = "pending"]
    BY <1>2, <2>3
  <2>4. CASE row # None /\ row.fp = job.fp /\ job'
               = [job EXCEPT !.step = "dialing", !.row = row]
    <3>1. row \in Trust!Rows
      BY <2>4 DEF Trust!TypeOK
    <3>2. job' \in Job /\ job'.row = row /\ job'.fp = job.fp
      BY <1>2, <2>4, <3>1
    <3> QED BY <1>1, <2>4, <3>1, <3>2
  <2> QED BY <2>1, <2>2, <2>3, <2>4 DEF Trust!JobCreated, Trust!JobRuns, Trust!JobDials
<1>4. Trust!KeysConfirmed' /\ Trust!InstalledWhereAsked'
  <2>1. CASE Trust!JobDials
    <3>1. /\ job.row \in Trust!Rows /\ TrustConfirmed(job.row) /\ job.row.fp = job.fp
          /\ Trust!Dial(job.row)
          /\ installed' = IF machine[job.row.addr] = job.row.fp
                          THEN installed \cup {<<job.fp, machine[job.row.addr]>>} ELSE installed
      BY <2>1 DEF Trust!JobDials
    <3>2. Trust!InstalledWhereAsked'
      BY <3>1 DEF Trust!InstalledWhereAsked
    <3> QED BY <1>1, <3>1, <3>2, TrustDialsConfirmed
  <2>2. CASE UNCHANGED <<reached, installed>>
    BY <1>1, <2>2 DEF Trust!KeysConfirmed, Trust!InstalledWhereAsked
  <2> QED BY <2>1, <2>2 DEF Trust!JobLoads, Trust!JobCreated, Trust!JobRuns, Trust!history
<1> QED BY <1>1, <1>3, <1>4 DEF Trust!TypeOK

LEMMA TrustNextKeeps ==
  ASSUME Trust!Assumptions, TrustInv, [Trust!Next]_(Trust!vars)
  PROVE  TrustInv'
<1>1. CASE UNCHANGED Trust!vars
  BY <1>1
     DEF Trust!vars, TrustInv, TrustTypes, Trust!TypeOK, TrustHaveRead, TrustFromUser,
         TrustConfirmed, Trust!KeysConfirmed, Trust!InstalledWhereAsked
<1>2. CASE Trust!Next
  BY <1>2, TrustMoveKeeps, TrustSavesKeep, TrustHostKeeps, TrustFlowKeeps, TrustTrustKeeps,
     TrustLinksKeep, TrustJobsKeep DEF Trust!Next
<1> QED BY <1>1, <1>2

-----------------------------------------------------------------------------
(* The files: FilePane *)

\* Only a directory that is shown has entries, and a listing is of a directory.
PaneListings ==
  /\ path = None => entries = {}
  /\ \A l \in Loads : listings[l].pc # "idle" => listings[l].dir \in Dirs

\* The question of an operation names its files; what it then sends has been agreed to.
PaneOpsAgreed ==
  \A o \in Ops :
    /\ ops[o].pc # "idle" => ops[o].dir \in Dirs
    /\ ops[o].pc = "asking" => named[o] = {ops[o].dir} \X ops[o].names
    /\ ops[o].pc \in {"sent", "reading"} /\ ops[o].kind # "create" =>
         \A n \in ops[o].names : <<o, <<ops[o].dir, n>>>> \in allowed

\* So does the question of an upload, before the server may replace its target.
PaneTransfersAgreed ==
  \A t \in Transfers :
    /\ transfers[t].status # "none" => transfers[t].dir \in Dirs /\ transfers[t].name \in Names
    /\ transfers[t].pc # "idle" => transfers[t].status # "none"
    /\ transfers[t].pc = "asking" => named[t] = {<<transfers[t].dir, transfers[t].name>>}
    /\ transfers[t].pc = "sent" /\ transfers[t].overwrite =>
         <<t, <<transfers[t].dir, transfers[t].name>>>> \in allowed

PaneInv ==
  /\ Pane!TypeOK /\ Pane!TargetsConfirmed
  /\ PaneListings /\ PaneOpsAgreed /\ PaneTransfersAgreed

PaneLoad     == [pc : {"idle", "sent", "read"}, dir : Dirs \cup {None}, entries : SUBSET Names]
PaneOp       == [pc : {"idle", "asking", "sent", "reading"},
             kind : {"none", "delete", "move", "create"}, dir : Dirs \cup {None},
             names : SUBSET Names]
PaneTransfer == [status : {"none", "uploading", "done", "failed", "cancelled"},
             pc : {"idle", "sent", "answered", "conflict", "refused", "asking"},
             kind : {"upload", "download"}, dir : Dirs \cup {None}, name : Names \cup {None},
             overwrite : BOOLEAN]
PaneAsks     == [Ops \cup Transfers -> SUBSET Pane!FileNames]

LEMMA PaneInitHolds == ASSUME Pane!Assumptions, Pane!Init PROVE PaneInv
<1>1. /\ \A l \in Loads : listings[l] = Pane!NoLoad
      /\ \A o \in Ops : ops[o] = Pane!NoOp
      /\ \A t \in Transfers : transfers[t] = Pane!NoTransfer
  BY DEF Pane!Init
<1>2. /\ listings \in [Loads -> PaneLoad] /\ ops \in [Ops -> PaneOp]
      /\ transfers \in [Transfers -> PaneTransfer]
  BY DEF Pane!Init, Pane!NoLoad, Pane!NoOp, Pane!NoTransfer, PaneLoad, PaneOp, PaneTransfer
<1>3. Pane!TypeOK
  BY <1>2 DEF Pane!Assumptions, Pane!Init, Pane!TypeOK, PaneLoad, PaneOp, PaneTransfer
<1> QED BY <1>1, <1>3
           DEF Pane!Init, PaneInv, Pane!TargetsConfirmed, PaneListings, PaneOpsAgreed,
               PaneTransfersAgreed, Pane!NoLoad, Pane!NoOp, Pane!NoTransfer

\* The server takes what was agreed to, and the agreement with it.
LEMMA PaneTakesAgreed ==
  ASSUME PaneInv, NEW who \in Ops \cup Transfers, NEW one, <<who, one>> \in allowed,
         Pane!Takes(who, one)
  PROVE  taken' = {} /\ allowed' = allowed \ {<<who, one>>} /\ allowed' \subseteq allowed
BY DEF Pane!Takes, PaneInv, Pane!TargetsConfirmed

LEMMA PaneForgetsOwn ==
  ASSUME PaneInv, NEW who, Pane!Forgets(who)
  PROVE  /\ allowed' \subseteq allowed
         /\ \A w, f : w # who /\ <<w, f>> \in allowed => <<w, f>> \in allowed'
<1>1. \A w, f : <<w, f>>[1] = w
  OBVIOUS
<1> QED BY <1>1 DEF Pane!Forgets

\* Transfers that go on as they were keep what was agreed.
LEMMA PaneOthersTransfers ==
  ASSUME Pane!Assumptions, PaneInv, NEW o \in Ops, UNCHANGED transfers,
         \A w \in Transfers : named'[w] = named[w],
         \A w, f : w # o /\ <<w, f>> \in allowed => <<w, f>> \in allowed'
  PROVE  PaneTransfersAgreed'
<1>1. \A t \in Transfers : t # o
  BY DEF Pane!Assumptions
<1> QED BY <1>1 DEF PaneInv, PaneTransfersAgreed

LEMMA PaneOthersOps ==
  ASSUME Pane!Assumptions, PaneInv, NEW t \in Transfers, UNCHANGED ops,
         \A w \in Ops : named'[w] = named[w],
         \A w, f : w # t /\ <<w, f>> \in allowed => <<w, f>> \in allowed'
  PROVE  PaneOpsAgreed'
<1>1. \A o \in Ops : o # t
  BY DEF Pane!Assumptions
<1> QED BY <1>1 DEF PaneInv, PaneOpsAgreed

\* One operation changes: what must hold of it, and that nothing is taken from the others.
LEMMA PaneOneOp ==
  ASSUME Pane!Assumptions, PaneInv, NEW o \in Ops, NEW op \in PaneOp,
         ops' = [ops EXCEPT ![o] = op],
         \A w \in Ops : w # o => named'[w] = named[w],
         \A w, f : w # o /\ <<w, f>> \in allowed => <<w, f>> \in allowed',
         op.pc # "idle" => op.dir \in Dirs,
         op.pc = "asking" => named'[o] = {op.dir} \X op.names,
         op.pc \in {"sent", "reading"} /\ op.kind # "create" =>
           \A n \in op.names : <<o, <<op.dir, n>>>> \in allowed'
  PROVE  PaneOpsAgreed' /\ ops' \in [Ops -> PaneOp]
<1>1. ops \in [Ops -> PaneOp]
  BY DEF PaneInv, Pane!TypeOK, PaneOp
<1>2. ops'[o] = op /\ \A w \in Ops : w # o => ops'[w] = ops[w]
  BY <1>1
<1>3. PaneOpsAgreed'
  BY <1>2 DEF PaneInv, PaneOpsAgreed
<1> QED BY <1>1, <1>3

LEMMA PaneOneTransfer ==
  ASSUME Pane!Assumptions, PaneInv, NEW t \in Transfers, NEW tr \in PaneTransfer,
         transfers' = [transfers EXCEPT ![t] = tr],
         \A w \in Transfers : w # t => named'[w] = named[w],
         \A w, f : w # t /\ <<w, f>> \in allowed => <<w, f>> \in allowed',
         tr.status # "none" => tr.dir \in Dirs /\ tr.name \in Names,
         tr.pc # "idle" => tr.status # "none",
         tr.pc = "asking" => named'[t] = {<<tr.dir, tr.name>>},
         tr.pc = "sent" /\ tr.overwrite => <<t, <<tr.dir, tr.name>>>> \in allowed'
  PROVE  PaneTransfersAgreed' /\ transfers' \in [Transfers -> PaneTransfer]
<1>1. transfers \in [Transfers -> PaneTransfer]
  BY DEF PaneInv, Pane!TypeOK, PaneTransfer
<1>2. transfers'[t] = tr /\ \A w \in Transfers : w # t => transfers'[w] = transfers[w]
  BY <1>1
<1>3. PaneTransfersAgreed'
  BY <1>2 DEF PaneInv, PaneTransfersAgreed
<1> QED BY <1>1, <1>3

\* A directory is shown with its entries, and nothing is selected.
LEMMA PaneShowsKeep ==
  ASSUME PaneInv, NEW d \in Dirs, NEW names \in SUBSET Names, Pane!Shows(d, names),
         Pane!Assumptions
  PROVE  /\ path' \in Dirs /\ entries' \subseteq Names /\ selected' \subseteq entries'
BY DEF Pane!Shows

LEMMA PaneListingsKeep ==
  ASSUME Pane!Assumptions, PaneInv,
         \/ \E d \in Dirs, n \in Names : Pane!Outside(d, n)
         \/ \E l \in Loads : (\E d \in Dirs : Pane!Navigate(l, d)) \/ Pane!Read(l)
              \/ Pane!Listed(l) \/ Pane!ListFails(l)
         \/ \E n \in Names : Pane!Tick(n)
  PROVE  PaneInv'
<1>1. UNCHANGED <<ops, transfers, Pane!history>>
  BY DEF Pane!Outside, Pane!Navigate, Pane!Read, Pane!Listed, Pane!ListFails, Pane!Tick
<1>2. PaneOpsAgreed' /\ PaneTransfersAgreed' /\ Pane!TargetsConfirmed'
  BY <1>1 DEF Pane!history, PaneInv, PaneOpsAgreed, PaneTransfersAgreed, Pane!TargetsConfirmed
<1>3. listings \in [Loads -> PaneLoad]
  BY DEF PaneInv, Pane!TypeOK, PaneLoad
<1>4. ASSUME NEW d \in Dirs, NEW n \in Names, Pane!Outside(d, n) PROVE PaneInv'
  <2>1. remote' \in [Dirs -> SUBSET Names] /\ outside' \in 0..MaxOutside
    BY <1>4 DEF Pane!Outside, PaneInv, Pane!TypeOK, Pane!Assumptions
  <2>2. UNCHANGED <<path, entries, selected, listings, calls>>
    BY <1>4 DEF Pane!Outside, Pane!view
  <2> QED BY <1>1, <1>2, <2>1, <2>2 DEF Pane!history, PaneInv, Pane!TypeOK, PaneListings
<1>5. ASSUME NEW l \in Loads, NEW d \in Dirs, Pane!Navigate(l, d) PROVE PaneInv'
  <2> DEFINE new == [Pane!NoLoad EXCEPT !.pc = "sent", !.dir = d]
  <2>1. new \in PaneLoad /\ new.dir \in Dirs
    BY DEF Pane!NoLoad, PaneLoad
  <2>2. listings' = [listings EXCEPT ![l] = new]
    BY <1>5 DEF Pane!Navigate
  <2> HIDE DEF new
  <2>3. listings' \in [Loads -> PaneLoad] /\ \A k \in Loads : listings'[k] = IF k = l THEN new
          ELSE listings[k]
    BY <1>3, <2>1, <2>2
  <2>4. UNCHANGED <<remote, path, entries, selected, outside>> /\ calls' \in 0..MaxCalls
    <3>1. UNCHANGED <<remote, Pane!view, outside>> /\ calls < MaxCalls /\ calls' = calls + 1
      BY <1>5 DEF Pane!Navigate, Pane!Calls
    <3> QED BY <3>1 DEF Pane!view, PaneInv, Pane!TypeOK, Pane!Assumptions
  <2>5. PaneListings'
    BY <2>1, <2>3, <2>4 DEF PaneInv, PaneListings
  <2> QED BY <1>1, <1>2, <2>3, <2>4, <2>5 DEF Pane!history, PaneInv, Pane!TypeOK, PaneLoad
<1>6. ASSUME NEW l \in Loads, Pane!Read(l) PROVE PaneInv'
  <2>1. listings[l].dir \in Dirs /\ remote[listings[l].dir] \in SUBSET Names
    BY <1>6 DEF Pane!Read, PaneInv, PaneListings, Pane!TypeOK
  <2>2. listings' \in [Loads -> PaneLoad]
    BY <1>3, <1>6, <2>1 DEF Pane!Read, PaneLoad
  <2>3. \A k \in Loads : listings'[k].dir = listings[k].dir
          /\ (listings[k].pc = "idle" => k # l)
    BY <1>3, <1>6 DEF Pane!Read, PaneLoad
  <2>4. \A k \in Loads : k # l => listings'[k] = listings[k]
    BY <1>3, <1>6 DEF Pane!Read
  <2>5. UNCHANGED <<remote, path, entries, selected, outside, calls>>
    BY <1>6 DEF Pane!Read, Pane!view, Pane!spent
  <2>6. PaneListings'
    BY <2>1, <2>3, <2>4, <2>5 DEF PaneInv, PaneListings
  <2> QED BY <1>1, <1>2, <2>2, <2>5, <2>6 DEF Pane!history, PaneInv, Pane!TypeOK, PaneLoad
<1>7. ASSUME NEW l \in Loads, Pane!Listed(l) \/ Pane!ListFails(l) PROVE PaneInv'
  <2>1. listings' \in [Loads -> PaneLoad] /\ \A k \in Loads : k # l
          => listings'[k] = listings[k]
    BY <1>3, <1>7 DEF Pane!Listed, Pane!ListFails, Pane!NoLoad, PaneLoad
  <2>2. listings'[l].pc = "idle"
    BY <1>3, <1>7 DEF Pane!Listed, Pane!ListFails, Pane!NoLoad
  <2>3. UNCHANGED <<remote, outside, calls>>
    BY <1>7 DEF Pane!Listed, Pane!ListFails, Pane!spent
  <2>4. CASE Pane!Listed(l)
    <3>1. path' \in Dirs /\ entries' \subseteq Names /\ selected' \subseteq entries'
      BY <1>3, <2>4, PaneShowsKeep DEF Pane!Listed, PaneInv, PaneListings, PaneLoad
    <3>2. PaneListings'
      BY <2>1, <2>2, <3>1 DEF PaneInv, PaneListings, Pane!Assumptions
    <3> QED BY <1>1, <1>2, <2>1, <2>3, <3>1, <3>2
               DEF Pane!history, PaneInv, Pane!TypeOK, PaneLoad
  <2>5. CASE Pane!ListFails(l)
    <3>1. UNCHANGED <<path, entries, selected>>
      BY <2>5 DEF Pane!ListFails, Pane!view
    <3>2. PaneListings'
      BY <2>1, <2>2, <3>1 DEF PaneInv, PaneListings
    <3> QED BY <1>1, <1>2, <2>1, <2>3, <3>1, <3>2
               DEF Pane!history, PaneInv, Pane!TypeOK, PaneLoad
  <2> QED BY <1>7, <2>4, <2>5
<1>8. ASSUME NEW n \in Names, Pane!Tick(n) PROVE PaneInv'
  <2>1. selected' \subseteq entries /\ UNCHANGED <<remote, path, entries, listings, outside,
                                                   calls>>
    BY <1>8 DEF Pane!Tick, Pane!spent, PaneInv, Pane!TypeOK
  <2> QED BY <1>1, <1>2, <2>1 DEF Pane!history, PaneInv, Pane!TypeOK, PaneListings
<1> QED BY <1>4, <1>5, <1>6, <1>7, <1>8

\* What the steps of an operation leave alone, and what that gives.
LEMMA PaneOpStep ==
  ASSUME Pane!Assumptions, PaneInv, NEW o \in Ops, NEW op \in PaneOp,
         ops' = [ops EXCEPT ![o] = op],
         UNCHANGED <<listings, transfers, outside>>, calls' \in 0..MaxCalls,
         remote' \in [Dirs -> SUBSET Names],
         path' \in Dirs \/ UNCHANGED Pane!view, entries' \subseteq Names,
         selected' \subseteq entries',
         named' \in PaneAsks, \A w \in Ops \cup Transfers : w # o => named'[w] = named[w],
         allowed' \subseteq (Ops \cup Transfers) \X Pane!FileNames, taken' = {},
         \A w, f : w # o /\ <<w, f>> \in allowed => <<w, f>> \in allowed',
         op.pc # "idle" => op.dir \in Dirs,
         op.pc = "asking" => named'[o] = {op.dir} \X op.names,
         op.pc \in {"sent", "reading"} /\ op.kind # "create" =>
           \A n \in op.names : <<o, <<op.dir, n>>>> \in allowed'
  PROVE  PaneInv'
<1>1. PaneOpsAgreed' /\ ops' \in [Ops -> PaneOp]
  BY PaneOneOp
<1>2. PaneTransfersAgreed'
  <2>1. \A w \in Transfers : named'[w] = named[w]
    BY DEF Pane!Assumptions
  <2> QED BY <2>1, PaneOthersTransfers
<1>3. PaneListings'
  BY DEF PaneInv, PaneListings, Pane!view, Pane!Assumptions
<1>4. path' \in Dirs \cup {None}
  BY DEF PaneInv, Pane!TypeOK, Pane!view
<1>5. Pane!TypeOK'
  BY <1>1, <1>4 DEF PaneInv, Pane!TypeOK, PaneOp, PaneAsks
<1> QED BY <1>1, <1>2, <1>3, <1>5 DEF PaneInv, Pane!TargetsConfirmed

LEMMA PaneAskKeeps ==
  ASSUME Pane!Assumptions, PaneInv, NEW o \in Ops, NEW kind \in {"delete", "move", "create"},
         NEW names \in SUBSET Names, Pane!Ask(o, kind, names)
  PROVE  PaneInv'
<1> DEFINE op == [pc |-> "asking", kind |-> kind, dir |-> path, names |-> names]
<1>1. path \in Dirs /\ op \in PaneOp
  BY DEF Pane!Ask, PaneInv, Pane!TypeOK, PaneOp
<1>2. op.pc = "asking" /\ op.dir \in Dirs /\ op.dir = path /\ op.names = names
  BY <1>1
<1>3. ops' = [ops EXCEPT ![o] = op] /\ named' = [named EXCEPT ![o] = {path} \X names]
  BY DEF Pane!Ask
<1> HIDE DEF op
<1>4. {path} \X names \in SUBSET Pane!FileNames /\ named \in PaneAsks
  BY <1>1 DEF Pane!FileNames, PaneInv, Pane!TypeOK, PaneAsks
<1>5. /\ named' \in PaneAsks /\ named'[o] = {op.dir} \X op.names
      /\ \A w \in Ops \cup Transfers : w # o => named'[w] = named[w]
  BY <1>2, <1>3, <1>4 DEF PaneAsks
<1>6. /\ UNCHANGED <<remote, path, entries, selected, listings, transfers, outside, allowed,
                     taken>>
      /\ calls' \in 0..MaxCalls
  BY DEF Pane!Ask, Pane!view, Pane!Calls, PaneInv, Pane!TypeOK, Pane!Assumptions
<1>7. /\ remote' \in [Dirs -> SUBSET Names] /\ UNCHANGED Pane!view /\ entries' \subseteq Names
      /\ selected' \subseteq entries' /\ taken' = {}
      /\ allowed' \subseteq (Ops \cup Transfers) \X Pane!FileNames
  BY <1>6 DEF PaneInv, Pane!TypeOK, Pane!TargetsConfirmed, Pane!view
<1> QED BY <1>1, <1>2, <1>3, <1>5, <1>6, <1>7, PaneOpStep

LEMMA PaneAsksKeep ==
  ASSUME Pane!Assumptions, PaneInv, NEW o \in Ops,
         \/ Pane!DeleteSelected(o)
         \/ \E n \in Names : Pane!DeleteOne(o, n) \/ Pane!Move(o, n) \/ Pane!Create(o, n)
  PROVE  PaneInv'
<1>1. CASE Pane!DeleteSelected(o)
  <2>1. selected \in SUBSET Names
    BY DEF PaneInv, Pane!TypeOK
  <2> QED BY <1>1, <2>1, PaneAskKeeps DEF Pane!DeleteSelected
<1>2. ASSUME NEW n \in Names, Pane!DeleteOne(o, n) \/ Pane!Move(o, n) \/ Pane!Create(o, n)
      PROVE  PaneInv'
  <2>1. {n} \in SUBSET Names
    OBVIOUS
  <2> QED BY <1>2, <2>1, PaneAskKeeps DEF Pane!DeleteOne, Pane!Move, Pane!Create
<1> QED BY <1>1, <1>2

\* What a step of an operation that is under way starts from.
LEMMA PaneOpTyped ==
  ASSUME Pane!Assumptions, PaneInv, NEW o \in Ops
  PROVE  /\ ops \in [Ops -> PaneOp] /\ ops[o] \in PaneOp /\ named \in PaneAsks
         /\ named[o] \in SUBSET Pane!FileNames
         /\ Pane!NoOp \in PaneOp /\ Pane!NoOp.pc = "idle"
         /\ [named EXCEPT ![o] = {}] \in PaneAsks
         /\ \A w \in Ops \cup Transfers : w # o => [named EXCEPT ![o] = {}][w] = named[w]
<1>1. named \in PaneAsks /\ ops \in [Ops -> PaneOp]
  BY DEF PaneInv, Pane!TypeOK, PaneAsks, PaneOp
<1>2. Pane!NoOp \in PaneOp /\ Pane!NoOp.pc = "idle"
  BY DEF Pane!NoOp, PaneOp
<1> QED BY <1>1, <1>2 DEF PaneAsks

LEMMA PaneConfirmKeeps ==
  ASSUME Pane!Assumptions, PaneInv, NEW o \in Ops, Pane!Confirm(o)
  PROVE  PaneInv'
<1> DEFINE op == [ops[o] EXCEPT !.pc = "sent"]
<1>1. ops[o].pc = "asking" /\ ops[o] \in PaneOp /\ named \in PaneAsks
  BY PaneOpTyped DEF Pane!Confirm
<1>2. /\ op \in PaneOp /\ op.pc = "sent" /\ op.dir = ops[o].dir /\ op.names = ops[o].names
      /\ op.kind = ops[o].kind
  BY <1>1 DEF PaneOp
<1>3. ops' = [ops EXCEPT ![o] = op]
  BY PaneOpTyped DEF Pane!Confirm
<1> HIDE DEF op
<1>4. ops[o].dir \in Dirs /\ named[o] = {ops[o].dir} \X ops[o].names
  BY <1>1 DEF PaneInv, PaneOpsAgreed
<1>5. /\ UNCHANGED <<remote, Pane!view, listings, transfers, outside, calls, named, taken>>
      /\ allowed' = IF ops[o].kind = "create" THEN allowed ELSE allowed \cup ({o} \X named[o])
  BY DEF Pane!Confirm, Pane!spent
<1>6. {o} \X named[o] \subseteq (Ops \cup Transfers) \X Pane!FileNames
  BY <1>1 DEF PaneAsks
<1>7. allowed' \subseteq (Ops \cup Transfers) \X Pane!FileNames /\ allowed \subseteq allowed'
  BY <1>5, <1>6 DEF PaneInv, Pane!TypeOK
<1>8. op.kind # "create" => \A n \in op.names : <<o, <<op.dir, n>>>> \in allowed'
  BY <1>2, <1>4, <1>5
<1>9. /\ remote' \in [Dirs -> SUBSET Names] /\ entries' \subseteq Names
      /\ selected' \subseteq entries' /\ taken' = {} /\ calls' \in 0..MaxCalls
  BY <1>5 DEF PaneInv, Pane!TypeOK, Pane!TargetsConfirmed, Pane!view
<1> QED BY <1>1, <1>2, <1>3, <1>4, <1>5, <1>7, <1>8, <1>9, PaneOpStep

LEMMA PaneDeclineKeeps ==
  ASSUME Pane!Assumptions, PaneInv, NEW o \in Ops, Pane!Decline(o)
  PROVE  PaneInv'
<1>1. /\ UNCHANGED <<remote, Pane!view, listings, transfers, outside, calls, allowed, taken>>
      /\ ops' = [ops EXCEPT ![o] = Pane!NoOp] /\ named' = [named EXCEPT ![o] = {}]
  BY DEF Pane!Decline, Pane!spent
<1>2. /\ remote' \in [Dirs -> SUBSET Names] /\ entries' \subseteq Names
      /\ selected' \subseteq entries' /\ taken' = {} /\ calls' \in 0..MaxCalls
      /\ allowed' \subseteq (Ops \cup Transfers) \X Pane!FileNames
  BY <1>1 DEF PaneInv, Pane!TypeOK, Pane!TargetsConfirmed, Pane!view
<1> QED BY <1>1, <1>2, PaneOpTyped, PaneOpStep

\* The server carries out one name, of which the operation then has no more agreement.
LEMMA PanePerformedKeeps ==
  ASSUME Pane!Assumptions, PaneInv, NEW o \in Ops, NEW n \in Names, Pane!Performed(o, n)
  PROVE  PaneInv'
<1> DEFINE one == <<ops[o].dir, n>>
           op   == [ops[o] EXCEPT !.pc = "reading", !.names = @ \ {n}]
<1>1. ops[o].pc = "sent" /\ n \in ops[o].names /\ ops[o] \in PaneOp
  BY PaneOpTyped DEF Pane!Performed
<1>2. /\ op \in PaneOp /\ op.pc = "reading" /\ op.dir = ops[o].dir
      /\ op.names = ops[o].names \ {n}
      /\ op.kind = ops[o].kind
  BY <1>1 DEF PaneOp
<1>3. ops' = [ops EXCEPT ![o] = op]
  BY PaneOpTyped DEF Pane!Performed
<1> HIDE DEF op
<1>4. ops[o].dir \in Dirs
  BY <1>1 DEF PaneInv, PaneOpsAgreed
<1>5. UNCHANGED <<Pane!view, listings, transfers, outside, calls, named>>
  BY DEF Pane!Performed, Pane!spent
<1>6. remote' \in [Dirs -> SUBSET Names]
  <2>1. remote \in [Dirs -> SUBSET Names]
    BY DEF PaneInv, Pane!TypeOK
  <2>2. CASE remote' = [remote EXCEPT ![Pane!Dir(o)] = @ \ {n}]
    BY <2>1, <2>2
  <2>3. CASE remote' = [remote EXCEPT ![Pane!Dir(o)] = @ \cup {n}]
    BY <2>1, <2>3
  <2>4. ASSUME NEW d \in Dirs, NEW m \in Names,
               remote' = [e \in Dirs |-> (remote[e] \ IF e = Pane!Dir(o) THEN {n} ELSE {})
                                            \cup IF e = d THEN {m} ELSE {}]
        PROVE  remote' \in [Dirs -> SUBSET Names]
    BY <2>1, <2>4
  <2> QED BY <2>2, <2>3, <2>4 DEF Pane!Performed
<1>7. \/ ops[o].kind \in {"delete", "move"} /\ Pane!Takes(o, one)
      \/ ops[o].kind = "create" /\ UNCHANGED <<allowed, taken>>
  BY DEF Pane!Performed, Pane!Dir
<1>8. CASE ops[o].kind = "create" /\ UNCHANGED <<allowed, taken>>
  <2>1. /\ entries' \subseteq Names /\ selected' \subseteq entries' /\ taken' = {}
        /\ calls' \in 0..MaxCalls /\ named' \in PaneAsks
        /\ allowed' \subseteq (Ops \cup Transfers) \X Pane!FileNames
    BY <1>5, <1>8 DEF PaneInv, Pane!TypeOK, Pane!TargetsConfirmed, Pane!view, PaneAsks
  <2> QED BY <1>2, <1>3, <1>4, <1>5, <1>6, <1>8, <2>1, PaneOpStep
<1>9. CASE ops[o].kind \in {"delete", "move"} /\ Pane!Takes(o, one)
  <2>1. \A m \in ops[o].names : <<o, <<ops[o].dir, m>>>> \in allowed
    BY <1>1, <1>9 DEF PaneInv, PaneOpsAgreed
  <2>2. taken' = {} /\ allowed' = allowed \ {<<o, one>>}
    BY <1>1, <1>9, <2>1, PaneTakesAgreed
  <2>3. \A m \in op.names : <<o, <<op.dir, m>>>> \in allowed'
    BY <1>2, <2>1, <2>2
  <2>4. \A w, f : w # o /\ <<w, f>> \in allowed => <<w, f>> \in allowed'
    BY <2>2
  <2>5. /\ entries' \subseteq Names /\ selected' \subseteq entries'
        /\ calls' \in 0..MaxCalls /\ named' \in PaneAsks
        /\ allowed' \subseteq (Ops \cup Transfers) \X Pane!FileNames
    BY <1>5, <2>2 DEF PaneInv, Pane!TypeOK, Pane!view, PaneAsks
  <2> QED BY <1>2, <1>3, <1>4, <1>5, <1>6, <2>2, <2>3, <2>4, <2>5, PaneOpStep
<1> QED BY <1>7, <1>8, <1>9

\* The next name, or the end: with fewer names than before.
LEMMA PaneGoesOnKeeps ==
  ASSUME Pane!Assumptions, PaneInv, NEW o \in Ops, NEW names \in SUBSET ops[o].names,
         ops[o].pc \in {"sent", "reading"}, Pane!GoesOn(o, names),
         UNCHANGED <<remote, listings, transfers, Pane!spent, taken>>,
         path' \in Dirs \/ UNCHANGED Pane!view, entries' \subseteq Names,
         selected' \subseteq entries'
  PROVE  PaneInv'
<1> DEFINE op == [ops[o] EXCEPT !.pc = "sent", !.names = names]
<1>1. /\ remote' \in [Dirs -> SUBSET Names] /\ taken' = {} /\ calls' \in 0..MaxCalls
      /\ outside' = outside /\ UNCHANGED <<listings, transfers>>
  BY DEF Pane!spent, PaneInv, Pane!TypeOK, Pane!TargetsConfirmed
<1>2. CASE names = {}
  <2>1. /\ ops' = [ops EXCEPT ![o] = Pane!NoOp] /\ named' = [named EXCEPT ![o] = {}]
        /\ Pane!Forgets(o)
    BY <1>2 DEF Pane!GoesOn, Pane!Ended
  <2>2. /\ allowed' \subseteq (Ops \cup Transfers) \X Pane!FileNames
        /\ \A w, f : w # o /\ <<w, f>> \in allowed => <<w, f>> \in allowed'
    BY <2>1, PaneForgetsOwn DEF PaneInv, Pane!TypeOK
  <2> QED BY <1>1, <2>1, <2>2, PaneOpTyped, PaneOpStep
<1>3. CASE names # {}
  <2>1. ops[o] \in PaneOp /\ ops[o].dir \in Dirs /\ ops \in [Ops -> PaneOp]
    BY PaneOpTyped DEF PaneInv, PaneOpsAgreed
  <2>2. ops' = [ops EXCEPT ![o] = op] /\ UNCHANGED <<named, allowed>>
    BY <1>3, <2>1 DEF Pane!GoesOn
  <2>3. /\ op \in PaneOp /\ op.pc = "sent" /\ op.dir = ops[o].dir /\ op.names = names
        /\ op.kind = ops[o].kind
    BY <2>1 DEF PaneOp
  <2> HIDE DEF op
  <2>4. op.kind # "create" => \A n \in op.names : <<o, <<op.dir, n>>>> \in allowed'
    BY <2>2, <2>3 DEF PaneInv, PaneOpsAgreed
  <2>5. named' \in PaneAsks /\ allowed' \subseteq (Ops \cup Transfers) \X Pane!FileNames
    BY <2>2 DEF PaneInv, Pane!TypeOK, PaneAsks
  <2> QED BY <1>1, <2>1, <2>2, <2>3, <2>4, <2>5, PaneOpStep
<1> QED BY <1>2, <1>3

LEMMA PaneRoundsKeep ==
  ASSUME Pane!Assumptions, PaneInv, NEW o \in Ops, Pane!Reread(o)
           \/ \E n \in Names : Pane!OpFails(o, n)
  PROVE  PaneInv'
<1>1. CASE Pane!Reread(o)
  <2>1. ops[o].dir \in Dirs /\ ops[o].names \in SUBSET ops[o].names
    BY <1>1 DEF Pane!Reread, PaneInv, PaneOpsAgreed
  <2>2. remote[ops[o].dir] \in SUBSET Names
    BY <2>1 DEF PaneInv, Pane!TypeOK
  <2>3. /\ path' \in Dirs \/ UNCHANGED Pane!view
        /\ entries' \subseteq Names /\ selected' \subseteq entries'
    <3>1. CASE Pane!Shows(ops[o].dir, remote[ops[o].dir])
      BY <2>1, <2>2, <3>1, PaneShowsKeep
    <3>2. CASE UNCHANGED Pane!view
      BY <3>2 DEF Pane!view, PaneInv, Pane!TypeOK
    <3> QED BY <1>1, <3>1, <3>2 DEF Pane!Reread
  <2> QED BY <1>1, <2>1, <2>3, PaneGoesOnKeeps DEF Pane!Reread
<1>2. ASSUME NEW n \in Names, Pane!OpFails(o, n) PROVE PaneInv'
  <2>1. ops[o].names \ {n} \in SUBSET ops[o].names
    OBVIOUS
  <2>2. entries' \subseteq Names /\ selected' \subseteq entries'
    BY <1>2 DEF Pane!OpFails, Pane!view, PaneInv, Pane!TypeOK
  <2> QED BY <1>2, <2>1, <2>2, PaneGoesOnKeeps DEF Pane!OpFails
<1> QED BY <1>1, <1>2

LEMMA PaneTransferStep ==
  ASSUME Pane!Assumptions, PaneInv, NEW t \in Transfers, NEW tr \in PaneTransfer,
         transfers' = [transfers EXCEPT ![t] = tr],
         UNCHANGED <<listings, ops, outside>>, calls' \in 0..MaxCalls,
         remote' \in [Dirs -> SUBSET Names],
         path' \in Dirs \/ UNCHANGED Pane!view, entries' \subseteq Names,
         selected' \subseteq entries',
         named' \in PaneAsks, \A w \in Ops \cup Transfers : w # t => named'[w] = named[w],
         allowed' \subseteq (Ops \cup Transfers) \X Pane!FileNames, taken' = {},
         \A w, f : w # t /\ <<w, f>> \in allowed => <<w, f>> \in allowed',
         tr.status # "none", tr.dir \in Dirs, tr.name \in Names,
         tr.pc = "asking" => named'[t] = {<<tr.dir, tr.name>>},
         tr.pc = "sent" /\ tr.overwrite => <<t, <<tr.dir, tr.name>>>> \in allowed'
  PROVE  PaneInv'
<1>1. PaneTransfersAgreed' /\ transfers' \in [Transfers -> PaneTransfer]
  BY PaneOneTransfer
<1>2. PaneOpsAgreed'
  <2>1. \A w \in Ops : named'[w] = named[w]
    BY DEF Pane!Assumptions
  <2> QED BY <2>1, PaneOthersOps
<1>3. PaneListings'
  BY DEF PaneInv, PaneListings, Pane!view, Pane!Assumptions
<1>4. path' \in Dirs \cup {None}
  BY DEF PaneInv, Pane!TypeOK, Pane!view
<1>5. Pane!TypeOK'
  BY <1>1, <1>4 DEF PaneInv, Pane!TypeOK, PaneTransfer, PaneAsks
<1> QED BY <1>1, <1>2, <1>3, <1>5 DEF PaneInv, Pane!TargetsConfirmed

\* What a step of a transfer that is under way starts from.
LEMMA PaneTransferTyped ==
  ASSUME Pane!Assumptions, PaneInv, NEW t \in Transfers
  PROVE  /\ transfers \in [Transfers -> PaneTransfer] /\ transfers[t] \in PaneTransfer
         /\ named \in PaneAsks /\ named[t] \in SUBSET Pane!FileNames
         /\ entries \subseteq Names /\ selected \subseteq entries /\ taken = {}
         /\ calls \in 0..MaxCalls /\ remote \in [Dirs -> SUBSET Names]
         /\ allowed \subseteq (Ops \cup Transfers) \X Pane!FileNames
         /\ transfers[t].status # "none" =>
              transfers[t].dir \in Dirs /\ transfers[t].name \in Names
         /\ transfers[t].pc # "idle" => transfers[t].status # "none"
BY DEF PaneInv, Pane!TypeOK, PaneTransfer, PaneAsks, Pane!TargetsConfirmed, PaneTransfersAgreed

LEMMA PaneStartsKeep ==
  ASSUME Pane!Assumptions, PaneInv, NEW t \in Transfers, NEW kind \in {"upload", "download"},
         NEW d \in Dirs, NEW n \in Names, Pane!Starts(t, kind, d, n, FALSE),
         calls' \in 0..MaxCalls,
         UNCHANGED <<remote, Pane!view, listings, ops, outside, Pane!history>>
  PROVE  PaneInv'
<1> DEFINE tr == [status |-> "uploading", pc |-> "sent", kind |-> kind, dir |-> d, name |-> n,
                  overwrite |-> FALSE]
<1>1. /\ tr \in PaneTransfer /\ tr.status # "none" /\ tr.dir \in Dirs /\ tr.name \in Names
      /\ tr.pc # "asking" /\ ~tr.overwrite
  BY DEF PaneTransfer
<1>2. transfers' = [transfers EXCEPT ![t] = tr]
  BY DEF Pane!Starts
<1> HIDE DEF tr
<1> QED BY <1>1, <1>2, PaneTransferTyped, PaneTransferStep DEF Pane!history, Pane!view

LEMMA PaneCallsKeep ==
  ASSUME Pane!Assumptions, PaneInv, NEW t \in Transfers,
         Pane!Retry(t) \/ \E n \in Names : Pane!Upload(t, n) \/ Pane!Download(t, n)
  PROVE  PaneInv'
<1>1. calls' \in 0..MaxCalls
  <2>1. calls < MaxCalls /\ calls' = calls + 1
    BY DEF Pane!Retry, Pane!Upload, Pane!Download, Pane!Calls
  <2> QED BY <2>1 DEF PaneInv, Pane!TypeOK, Pane!Assumptions
<1>2. CASE Pane!Retry(t)
  <2>1. transfers[t].dir \in Dirs /\ transfers[t].name \in Names
    BY <1>2, PaneTransferTyped DEF Pane!Retry
  <2>2. transfers[t].kind \in {"upload", "download"}
    BY PaneTransferTyped DEF PaneTransfer
  <2> QED BY <1>1, <1>2, <2>1, <2>2, PaneStartsKeep DEF Pane!Retry
<1>3. ASSUME NEW n \in Names, Pane!Upload(t, n) \/ Pane!Download(t, n) PROVE PaneInv'
  <2>1. path \in Dirs
    BY <1>3 DEF Pane!Upload, Pane!Download, PaneInv, Pane!TypeOK, PaneListings
  <2> QED BY <1>1, <1>3, <2>1, PaneStartsKeep DEF Pane!Upload, Pane!Download
<1> QED BY <1>2, <1>3

\* The server replaces a target only for a request with the user's agreement.
LEMMA PaneStoredKeeps ==
  ASSUME Pane!Assumptions, PaneInv, NEW t \in Transfers, Pane!Stored(t)
  PROVE  PaneInv'
<1> DEFINE T     == transfers[t]
           there == T.name \in remote[T.dir]
           pc    == IF T.kind = "upload" /\ there /\ ~T.overwrite THEN "conflict"
                    ELSE IF T.kind = "download" /\ ~there THEN "refused" ELSE "answered"
           tr    == [T EXCEPT !.pc = pc]
<1>1. /\ T.pc = "sent" /\ T \in PaneTransfer /\ T.dir \in Dirs /\ T.name \in Names
      /\ T.status # "none"
  BY PaneTransferTyped DEF Pane!Stored
<1>2. /\ tr \in PaneTransfer /\ tr.pc \notin {"sent", "asking"} /\ tr.dir \in Dirs
      /\ tr.name \in Names
      /\ tr.status # "none"
  BY <1>1 DEF PaneTransfer
<1>3. transfers' = [transfers EXCEPT ![t] = tr]
  BY PaneTransferTyped DEF Pane!Stored
<1>4. UNCHANGED <<path, entries, selected, Pane!view, listings, ops, outside, calls, named>>
  BY DEF Pane!Stored, Pane!view, Pane!spent
<1>5. \/ /\ T.overwrite /\ remote' = [remote EXCEPT ![T.dir] = @ \cup {T.name}]
         /\ Pane!Takes(t, <<T.dir, T.name>>)
      \/ /\ remote' = [remote EXCEPT ![T.dir] = @ \cup {T.name}] /\ UNCHANGED <<allowed, taken>>
      \/ UNCHANGED <<remote, allowed, taken>>
  BY DEF Pane!Stored
<1>6. remote' \in [Dirs -> SUBSET Names]
  BY <1>1, <1>5, PaneTransferTyped
<1>7. /\ taken' = {} /\ allowed' \subseteq allowed
      /\ \A w, f : w # t /\ <<w, f>> \in allowed => <<w, f>> \in allowed'
  <2>1. CASE UNCHANGED <<allowed, taken>>
    BY <2>1, PaneTransferTyped
  <2>2. CASE T.overwrite /\ Pane!Takes(t, <<T.dir, T.name>>)
    <3>1. <<t, <<T.dir, T.name>>>> \in allowed
      BY <1>1, <2>2 DEF PaneInv, PaneTransfersAgreed
    <3>2. taken' = {} /\ allowed' = allowed \ {<<t, <<T.dir, T.name>>>>}
      BY <2>2, <3>1, PaneTakesAgreed
    <3> QED BY <3>2
  <2> QED BY <1>5, <2>1, <2>2
<1> HIDE DEF tr, T
<1> QED BY <1>2, <1>3, <1>4, <1>6, <1>7, PaneTransferTyped, PaneTransferStep

LEMMA PaneFinishedKeeps ==
  ASSUME Pane!Assumptions, PaneInv, NEW t \in Transfers, Pane!Finished(t)
  PROVE  PaneInv'
<1> DEFINE tr == [transfers[t] EXCEPT !.status = "done", !.pc = "idle"]
<1>1. /\ transfers[t].pc = "answered" /\ transfers[t] \in PaneTransfer
      /\ transfers[t].dir \in Dirs
      /\ transfers[t].name \in Names
  BY PaneTransferTyped DEF Pane!Finished
<1>2. /\ tr \in PaneTransfer /\ tr.pc = "idle" /\ tr.status = "done" /\ tr.dir \in Dirs
      /\ tr.name \in Names
  BY <1>1 DEF PaneTransfer
<1>3. transfers' = [transfers EXCEPT ![t] = tr]
  BY PaneTransferTyped DEF Pane!Finished
<1> HIDE DEF tr
<1>4. UNCHANGED <<remote, listings, ops, outside, calls, named, taken>> /\ Pane!Forgets(t)
  BY DEF Pane!Finished, Pane!spent
<1>5. /\ path' \in Dirs \/ UNCHANGED Pane!view
      /\ entries' \subseteq Names /\ selected' \subseteq entries'
  <2>1. remote[transfers[t].dir] \in SUBSET Names
    BY <1>1, PaneTransferTyped
  <2>2. CASE Pane!Shows(transfers[t].dir, remote[transfers[t].dir])
    BY <1>1, <2>1, <2>2, PaneShowsKeep
  <2>3. CASE UNCHANGED Pane!view
    BY <2>3, PaneTransferTyped DEF Pane!view
  <2> QED BY <2>2, <2>3 DEF Pane!Finished
<1>6. /\ allowed' \subseteq allowed
      /\ \A w, f : w # t /\ <<w, f>> \in allowed => <<w, f>> \in allowed'
  BY <1>4, PaneForgetsOwn
<1> QED BY <1>2, <1>3, <1>4, <1>5, <1>6, PaneTransferTyped, PaneTransferStep

LEMMA PaneQuestionsKeep ==
  ASSUME Pane!Assumptions, PaneInv, NEW t \in Transfers, Pane!Conflicts(t) \/ Pane!Keep(t)
  PROVE  PaneInv'
<1> DEFINE T  == transfers[t]
           tr == IF T.pc = "conflict" THEN [T EXCEPT !.status = "failed", !.pc = "asking"]
                 ELSE [T EXCEPT !.pc = "idle"]
           files == IF T.pc = "conflict" THEN {<<T.dir, T.name>>} ELSE {}
<1>1. T \in PaneTransfer /\ T.dir \in Dirs /\ T.name \in Names /\ T.status # "none"
  BY PaneTransferTyped DEF Pane!Conflicts, Pane!Keep
<1>2. /\ transfers' = [transfers EXCEPT ![t] = tr] /\ named' = [named EXCEPT ![t] = files]
      /\ UNCHANGED <<remote, Pane!view, listings, ops, outside, calls, allowed, taken>>
  BY PaneTransferTyped DEF Pane!Conflicts, Pane!Keep, Pane!spent
<1>3. /\ tr \in PaneTransfer /\ tr.pc # "sent" /\ tr.dir = T.dir /\ tr.name = T.name
      /\ tr.status # "none" /\ (tr.pc = "asking" => files = {<<T.dir, T.name>>})
  BY <1>1 DEF PaneTransfer
<1>4. files \in SUBSET Pane!FileNames
  BY <1>1 DEF Pane!FileNames
<1> HIDE DEF tr, files, T
<1>5. /\ named' \in PaneAsks /\ named'[t] = files
      /\ \A w \in Ops \cup Transfers : w # t => named'[w] = named[w]
  BY <1>2, <1>4, PaneTransferTyped DEF PaneAsks
<1>6. /\ remote' \in [Dirs -> SUBSET Names] /\ entries' \subseteq Names
      /\ selected' \subseteq entries'
      /\ allowed' \subseteq (Ops \cup Transfers) \X Pane!FileNames /\ taken' = {}
      /\ calls' \in 0..MaxCalls
  BY <1>2, PaneTransferTyped DEF Pane!view
<1> QED BY <1>1, <1>2, <1>3, <1>5, <1>6, PaneTransferStep

LEMMA PaneOverwriteKeeps ==
  ASSUME Pane!Assumptions, PaneInv, NEW t \in Transfers, Pane!Overwrite(t)
  PROVE  PaneInv'
<1> DEFINE T  == transfers[t]
           tr == [status |-> "uploading", pc |-> "sent", kind |-> "upload", dir |-> T.dir,
                  name |-> T.name, overwrite |-> TRUE]
<1>1. T.pc = "asking" /\ T.dir \in Dirs /\ T.name \in Names
  BY PaneTransferTyped DEF Pane!Overwrite
<1>2. named[t] = {<<T.dir, T.name>>}
  BY <1>1 DEF PaneInv, PaneTransfersAgreed
<1>3. /\ transfers' = [transfers EXCEPT ![t] = tr] /\ named' = [named EXCEPT ![t] = {}]
      /\ allowed' = allowed \cup ({t} \X named[t])
      /\ UNCHANGED <<remote, Pane!view, listings, ops, outside, calls, taken>>
  BY DEF Pane!Overwrite, Pane!Starts, Pane!spent
<1>4. /\ tr \in PaneTransfer /\ tr.pc = "sent" /\ tr.dir = T.dir /\ tr.name = T.name
      /\ tr.status # "none"
  BY <1>1 DEF PaneTransfer
<1> HIDE DEF tr, T
<1>5. <<t, <<tr.dir, tr.name>>>> \in allowed' /\ allowed \subseteq allowed'
  BY <1>2, <1>3, <1>4
<1>6. {t} \X named[t] \subseteq (Ops \cup Transfers) \X Pane!FileNames
  BY PaneTransferTyped
<1>7. named' \in PaneAsks /\ \A w \in Ops \cup Transfers : w # t => named'[w] = named[w]
  BY <1>3, PaneTransferTyped DEF PaneAsks
<1>8. /\ remote' \in [Dirs -> SUBSET Names] /\ entries' \subseteq Names
      /\ selected' \subseteq entries'
      /\ allowed' \subseteq (Ops \cup Transfers) \X Pane!FileNames /\ taken' = {}
      /\ calls' \in 0..MaxCalls
  BY <1>3, <1>6, PaneTransferTyped DEF Pane!view
<1> QED BY <1>1, <1>3, <1>4, <1>5, <1>7, <1>8, PaneTransferStep

LEMMA PaneStopsKeep ==
  ASSUME Pane!Assumptions, PaneInv, NEW t \in Transfers, Pane!TransferFails(t)
           \/ Pane!Cancel(t) PROVE PaneInv'
<1>1. PICK end \in {"failed", "cancelled"} : Pane!Stops(t, end)
  BY DEF Pane!TransferFails, Pane!Cancel
<1> DEFINE tr == [transfers[t] EXCEPT !.status = end, !.pc = "idle"]
<1>2. transfers[t] \in PaneTransfer /\ transfers[t].dir \in Dirs /\ transfers[t].name \in Names
  BY PaneTransferTyped DEF Pane!TransferFails, Pane!Cancel
<1>3. /\ tr \in PaneTransfer /\ tr.pc = "idle" /\ tr.status # "none" /\ tr.dir \in Dirs
      /\ tr.name \in Names
  BY <1>2 DEF PaneTransfer
<1>4. /\ transfers' = [transfers EXCEPT ![t] = tr] /\ Pane!Forgets(t)
      /\ UNCHANGED <<remote, Pane!view, listings, ops, outside, calls, named, taken>>
  BY <1>1, PaneTransferTyped DEF Pane!Stops, Pane!spent
<1> HIDE DEF tr
<1>5. /\ allowed' \subseteq allowed
      /\ \A w, f : w # t /\ <<w, f>> \in allowed => <<w, f>> \in allowed'
  BY <1>4, PaneForgetsOwn
<1>6. /\ remote' \in [Dirs -> SUBSET Names] /\ entries' \subseteq Names
      /\ selected' \subseteq entries'
      /\ allowed' \subseteq (Ops \cup Transfers) \X Pane!FileNames /\ taken' = {}
      /\ calls' \in 0..MaxCalls
      /\ named' \in PaneAsks
  BY <1>4, <1>5, PaneTransferTyped DEF Pane!view
<1> QED BY <1>3, <1>4, <1>5, <1>6, PaneTransferStep

LEMMA PaneNextKeeps == ASSUME Pane!Assumptions, PaneInv, [Pane!Next]_(Pane!vars) PROVE PaneInv'
<1>1. CASE UNCHANGED Pane!vars
  BY <1>1
     DEF Pane!vars, Pane!view, PaneInv, Pane!TypeOK, Pane!TargetsConfirmed, PaneListings,
         PaneOpsAgreed, PaneTransfersAgreed
<1>2. CASE Pane!Next
  <2>1. ASSUME NEW o \in Ops, NEW n \in Names, Pane!Performed(o, n) PROVE PaneInv'
    BY <2>1, PanePerformedKeeps
  <2>2. ASSUME NEW o \in Ops, Pane!Confirm(o) \/ Pane!Decline(o) PROVE PaneInv'
    BY <2>2, PaneConfirmKeeps, PaneDeclineKeeps
  <2>3. ASSUME NEW t \in Transfers, Pane!Stored(t) \/ Pane!Finished(t) \/ Pane!Conflicts(t)
                 \/ Pane!Overwrite(t) \/ Pane!Keep(t)
        PROVE  PaneInv'
    BY <2>3, PaneStoredKeeps, PaneFinishedKeeps, PaneQuestionsKeep, PaneOverwriteKeeps
  <2>4. ASSUME NEW t \in Transfers,
               \/ Pane!TransferFails(t) \/ Pane!Cancel(t) \/ Pane!Retry(t)
               \/ \E n \in Names : Pane!Upload(t, n) \/ Pane!Download(t, n)
        PROVE  PaneInv'
    BY <2>4, PaneStopsKeep, PaneCallsKeep
  <2>5. ASSUME NEW o \in Ops,
               \/ Pane!DeleteSelected(o) \/ Pane!Reread(o)
               \/ \E n \in Names : Pane!DeleteOne(o, n) \/ Pane!Move(o, n) \/ Pane!Create(o, n)
                    \/ Pane!OpFails(o, n)
        PROVE  PaneInv'
    BY <2>5, PaneAsksKeep, PaneRoundsKeep
  <2> QED BY <1>2, <2>1, <2>2, <2>3, <2>4, <2>5, PaneListingsKeep DEF Pane!Next
<1> QED BY <1>1, <1>2

-----------------------------------------------------------------------------
(* The plans: PlanPage *)

\* A plan that is shown is a task's.
PlansShowsTask == plan.task = None => plan = Plans!NoPlan

\* A handler that is not idle has a task, and one of them asks at most.
PlansHandlers ==
  /\ run.pc # "idle" => run.task \in Tasks
  /\ removal.pc # "idle" => removal.task \in Tasks
  /\ ~(run.pc \in {"asking", "naming"} /\ removal.pc = "asking")
  /\ run.pc \in {"idle", "asking", "naming"} => ~running

\* The question names the task that its handler has kept.
PlansNames ==
  /\ run.pc \in {"asking", "naming"} => asked = run.task
  /\ removal.pc = "asking" => asked = removal.task

\* What a handler is about to send has been agreed to, and not been done yet.
PlansAgreedTo ==
  /\ run.pc \in {"connecting", "posting"} => <<"execute", run.task>> \in agreed
  /\ removal.pc = "sent" => <<"delete", removal.task>> \in agreed

PlansInv ==
  /\ Plans!TypeOK /\ Plans!RunsWhatWasConfirmed
  /\ PlansShowsTask /\ PlansHandlers /\ PlansNames /\ PlansAgreedTo

LEMMA PlansInitHolds == ASSUME Plans!Assumptions, Plans!Init PROVE PlansInv
<1>1. status \in [Tasks -> Plans!Statuses] /\ tasks \in [Tasks -> Plans!Statuses]
  BY DEF Plans!Init, Plans!Statuses
<1>2. Plans!TypeOK
  <2>1. plan \in [task : Tasks \cup {None}, status : Plans!Statuses, output : Tasks \cup {None}]
    BY DEF Plans!Init, Plans!NoPlan, Plans!Statuses
  <2>2. /\ run \in [pc : {"idle", "asking", "naming", "connecting", "posting", "streaming",
                        "analysis"}, task : Tasks \cup {None}]
        /\ removal \in [pc : {"idle", "asking", "sent"}, task : Tasks \cup {None}]
    BY DEF Plans!Init, Plans!Idle
  <2>3. looks \in 0..MaxLooks
    BY DEF Plans!Init, Plans!Assumptions
  <2>4. /\ creating \in {"idle", "sent"} /\ running \in BOOLEAN /\ loading \in BOOLEAN
        /\ asked \in Tasks \cup {None} /\ agreed \subseteq Plans!Deeds
        /\ unasked \subseteq Plans!Deeds
    BY DEF Plans!Init
  <2> QED BY <1>1, <2>1, <2>2, <2>3, <2>4 DEF Plans!TypeOK
<1> QED BY <1>2
           DEF Plans!Init, PlansInv, Plans!RunsWhatWasConfirmed, PlansShowsTask, PlansHandlers,
               PlansNames, PlansAgreedTo, Plans!NoPlan, Plans!Idle

\* The list, the choice of a plan and its making.
LEMMA PlansLooksKeep ==
  ASSUME Plans!Assumptions, PlansInv,
         \/ Plans!Loaded \/ Plans!NewTask \/ Plans!Submit \/ Plans!NotPlanned
         \/ \E t \in Tasks : Plans!Look(t) \/ Plans!Planned(t) \/ Plans!Ends(t)
  PROVE  PlansInv'
<1> USE DEF PlansInv
<1>1. CASE Plans!Loaded \/ Plans!NewTask \/ Plans!Submit \/ Plans!NotPlanned
  <2>1. plan' \in [task : Tasks \cup {None}, status : Plans!Statuses, output : Tasks
                   \cup {None}]
    BY <1>1
       DEF Plans!TypeOK, Plans!Loaded, Plans!NewTask, Plans!Submit, Plans!NotPlanned,
           Plans!server, Plans!NoPlan, Plans!Statuses
  <2>2. tasks' \in [Tasks -> Plans!Statuses] /\ UNCHANGED status /\ loading' \in BOOLEAN
    BY <1>1
       DEF Plans!TypeOK, Plans!Loaded, Plans!NewTask, Plans!Submit, Plans!NotPlanned,
           Plans!server
  <2>3. creating' \in {"idle", "sent"} /\ UNCHANGED <<running, run, removal, looks,
                                                      Plans!history>>
    BY <1>1
       DEF Plans!TypeOK, Plans!Loaded, Plans!NewTask, Plans!Submit, Plans!NotPlanned,
           Plans!handlers, Plans!history
  <2>4. Plans!TypeOK'
    BY <2>1, <2>2, <2>3 DEF Plans!TypeOK, Plans!history
  <2>5. plan' = plan \/ plan' = Plans!NoPlan
    BY <1>1 DEF Plans!Loaded, Plans!NewTask, Plans!Submit, Plans!NotPlanned
  <2> QED BY <2>3, <2>4, <2>5
             DEF Plans!history, Plans!RunsWhatWasConfirmed, PlansShowsTask, PlansHandlers,
                 PlansNames, PlansAgreedTo
<1>2. ASSUME NEW t \in Tasks, Plans!Look(t) \/ Plans!Planned(t) \/ Plans!Ends(t) PROVE PlansInv'
  <2>1. Plans!TypeOK'
    <3>1. CASE Plans!Look(t)
      <4>1. tasks[t] \in Plans!Statuses /\ looks' \in 0..MaxLooks
        BY <3>1 DEF Plans!TypeOK, Plans!Look, Plans!Assumptions
      <4> QED BY <3>1, <4>1
                 DEF Plans!TypeOK, Plans!Look, Plans!server, Plans!handlers, Plans!history
    <3>2. CASE Plans!Planned(t)
      BY <3>2 DEF Plans!TypeOK, Plans!Planned, Plans!Reloads, Plans!history, Plans!Statuses
    <3>3. CASE Plans!Ends(t)
      BY <3>3 DEF Plans!TypeOK, Plans!Ends, Plans!handlers, Plans!history, Plans!Statuses
    <3> QED BY <1>2, <3>1, <3>2, <3>3
  <2>2. PlansShowsTask'
    BY <1>2 DEF PlansShowsTask, Plans!Look, Plans!Planned, Plans!Ends, Plans!Assumptions
  <2> QED BY <1>2, <2>1, <2>2
             DEF Plans!Look, Plans!Planned, Plans!Ends, Plans!server, Plans!handlers,
                 Plans!history, Plans!RunsWhatWasConfirmed, PlansHandlers, PlansNames,
                 PlansAgreedTo
<1> QED BY <1>1, <1>2

\* execute(), up to the request.
LEMMA PlansAsksKeep ==
  ASSUME Plans!Assumptions, PlansInv, Plans!Execute \/ Plans!Confirm \/ Plans!Decline
           \/ Plans!Connected PROVE PlansInv'
<1> USE DEF PlansInv
<1>1. CASE Plans!Execute
  <2>1. plan.task \in Tasks
    BY <1>1 DEF Plans!Execute, PlansShowsTask, Plans!NoPlan, Plans!TypeOK
  <2>2. Plans!TypeOK'
    BY <1>1, <2>1 DEF Plans!TypeOK, Plans!Execute, Plans!server
  <2> QED BY <1>1, <2>1, <2>2
             DEF Plans!Execute, Plans!Covered, Plans!Idle, Plans!server,
                 Plans!RunsWhatWasConfirmed, PlansShowsTask, PlansHandlers, PlansNames,
                 PlansAgreedTo
<1>2. CASE Plans!Confirm
  <2>1. run.pc \in {"asking", "naming"} /\ asked = run.task /\ run.task \in Tasks /\ ~running
    BY <1>2 DEF Plans!Confirm, PlansHandlers, PlansNames
  <2>2. CASE /\ run.pc = "asking" /\ Plans!Goes("naming")
             /\ UNCHANGED <<running, agreed, asked>>
    <3>1. Plans!TypeOK'
      BY <1>2, <2>2 DEF Plans!TypeOK, Plans!Confirm, Plans!Goes, Plans!server
    <3>2. run'.pc = "naming" /\ run'.task = run.task
      BY <2>2 DEF Plans!Goes, Plans!TypeOK
    <3> QED BY <1>2, <2>1, <2>2, <3>1, <3>2
               DEF Plans!Confirm, Plans!server, Plans!RunsWhatWasConfirmed, PlansShowsTask,
                   PlansHandlers, PlansNames, PlansAgreedTo
  <2>3. CASE /\ running' = TRUE /\ agreed' = agreed \cup {<<"execute", asked>>}
             /\ Plans!Goes("connecting") /\ asked' = None
    <3>1. Plans!TypeOK'
      BY <1>2, <2>1, <2>3 DEF Plans!TypeOK, Plans!Confirm, Plans!Goes, Plans!server, Plans!Deeds
    <3>2. run'.pc = "connecting" /\ run'.task = run.task
      BY <2>3 DEF Plans!Goes, Plans!TypeOK
    <3> QED BY <1>2, <2>1, <2>3, <3>1, <3>2
               DEF Plans!Confirm, Plans!server, Plans!RunsWhatWasConfirmed, PlansShowsTask,
                   PlansHandlers, PlansNames, PlansAgreedTo
  <2>4. CASE run.pc = "asking" /\ Plans!Goes("naming") /\ UNCHANGED <<running, agreed>>
    BY <1>2, <2>1, <2>2, <2>4 DEF Plans!Confirm
  <2>5. CASE running' = TRUE /\ agreed' = agreed \cup {<<"execute", asked>>}
               /\ Plans!Goes("connecting")
    BY <1>2, <2>3, <2>5 DEF Plans!Confirm
  <2> QED BY <1>2, <2>4, <2>5 DEF Plans!Confirm
<1>3. CASE Plans!Decline
  <2>1. Plans!TypeOK'
    BY <1>3 DEF Plans!TypeOK, Plans!Decline, Plans!Idle, Plans!server
  <2> QED BY <1>3, <2>1
             DEF Plans!Decline, Plans!Idle, Plans!server, Plans!RunsWhatWasConfirmed,
                 PlansShowsTask, PlansHandlers, PlansNames, PlansAgreedTo
<1>4. CASE Plans!Connected
  <2>1. Plans!TypeOK'
    BY <1>4 DEF Plans!TypeOK, Plans!Connected, Plans!Goes, Plans!server, Plans!history
  <2>2. run'.pc = "posting" /\ run'.task = run.task
    BY <1>4 DEF Plans!Connected, Plans!Goes, Plans!TypeOK
  <2> QED BY <1>4, <2>1, <2>2
             DEF Plans!Connected, Plans!server, Plans!history, Plans!RunsWhatWasConfirmed,
                 PlansShowsTask, PlansHandlers, PlansNames, PlansAgreedTo
<1> QED BY <1>1, <1>2, <1>3, <1>4

\* The server begins the task of the question.
LEMMA PlansBegunKeeps == ASSUME Plans!Assumptions, PlansInv, Plans!Begun PROVE PlansInv'
<1> USE DEF PlansInv
<1>1. /\ run.task \in Tasks /\ <<"execute", run.task>> \in agreed /\ run.pc = "posting"
      /\ removal' = removal /\ looks' = looks /\ asked' = asked /\ tasks' = tasks
      /\ loading' = loading /\ creating' = creating /\ running' = running
  BY DEF Plans!Begun, PlansHandlers, PlansAgreedTo
<1>2. unasked' = unasked /\ agreed' = agreed \ {<<"execute", run.task>>}
  BY <1>1 DEF Plans!Begun, Plans!Does, Plans!Posted
<1>3. run'.pc = "streaming" /\ run'.task = run.task
  BY DEF Plans!Begun, Plans!Goes, Plans!TypeOK
<1>4. Plans!TypeOK'
  BY <1>1, <1>2 DEF Plans!TypeOK, Plans!Begun, Plans!Goes, Plans!Posted, Plans!Statuses
<1>5. PlansShowsTask'
  BY <1>1 DEF PlansShowsTask, Plans!Begun, Plans!Assumptions
<1>6. PlansAgreedTo'
  BY <1>1, <1>2, <1>3 DEF PlansAgreedTo
<1> QED BY <1>1, <1>2, <1>3, <1>4, <1>5, <1>6
           DEF Plans!RunsWhatWasConfirmed, PlansHandlers, PlansNames

\* The stream of the results, and every end of execute().
LEMMA PlansResultsKeep ==
  ASSUME Plans!Assumptions, PlansInv, Plans!Output \/ Plans!Done \/ Plans!Analysed
           \/ Plans!RunFails \/ Plans!Stop PROVE PlansInv'
<1> USE DEF PlansInv
<1>1. CASE Plans!Output
  <2>1. Plans!TypeOK'
    BY <1>1 DEF Plans!TypeOK, Plans!Output, Plans!server, Plans!handlers, Plans!history
  <2>2. PlansShowsTask'
    BY <1>1 DEF PlansShowsTask, Plans!Output, Plans!TypeOK
  <2> QED BY <1>1, <2>1, <2>2
             DEF Plans!Output, Plans!server, Plans!handlers, Plans!history,
                 Plans!RunsWhatWasConfirmed, PlansHandlers, PlansNames, PlansAgreedTo
<1>2. CASE Plans!Done
  <2>1. run.task \in Tasks
    BY <1>2 DEF Plans!Done, PlansHandlers
  <2>2. Plans!TypeOK'
    BY <1>2, <2>1
       DEF Plans!TypeOK, Plans!Done, Plans!Goes, Plans!server, Plans!history, Plans!Statuses
  <2>3. PlansShowsTask'
    BY <1>2, <2>1 DEF PlansShowsTask, Plans!Done, Plans!Assumptions
  <2>4. run'.pc = "analysis" /\ run'.task = run.task
    BY <1>2 DEF Plans!Done, Plans!Goes, Plans!TypeOK
  <2> QED BY <1>2, <2>1, <2>2, <2>3, <2>4
             DEF Plans!Done, Plans!server, Plans!history, Plans!RunsWhatWasConfirmed,
                 PlansHandlers, PlansNames, PlansAgreedTo
<1>3. CASE Plans!Analysed
  <2>1. Plans!TypeOK'
    BY <1>3
       DEF Plans!TypeOK, Plans!Analysed, Plans!Idle, Plans!Reloads, Plans!history, Plans!NoPlan
  <2>2. PlansShowsTask'
    BY <1>3 DEF PlansShowsTask, Plans!Analysed, Plans!TypeOK
  <2> QED BY <1>3, <2>1, <2>2
             DEF Plans!Analysed, Plans!Idle, Plans!history, Plans!RunsWhatWasConfirmed,
                 PlansHandlers, PlansNames, PlansAgreedTo
<1>4. CASE Plans!RunFails
  <2>1. Plans!TypeOK'
    BY <1>4 DEF Plans!TypeOK, Plans!RunFails, Plans!Idle, Plans!server
  <2>2. removal.pc = "sent" => <<"delete", removal.task>> \in agreed'
    BY <1>4 DEF Plans!RunFails, PlansAgreedTo
  <2> QED BY <1>4, <2>1, <2>2
             DEF Plans!RunFails, Plans!Idle, Plans!server, Plans!RunsWhatWasConfirmed,
                 PlansShowsTask, PlansHandlers, PlansNames, PlansAgreedTo
<1>5. CASE Plans!Stop
  <2>2. plan.task \in Tasks
    BY <1>5 DEF Plans!Stop, PlansShowsTask, Plans!TypeOK
  <2>3. status' \in [Tasks -> Plans!Statuses]
    BY <1>5, <2>2 DEF Plans!TypeOK, Plans!Stop, Plans!Statuses
  <2>1. Plans!TypeOK'
    BY <1>5, <2>3 DEF Plans!TypeOK, Plans!Stop, Plans!handlers, Plans!history
  <2> QED BY <1>5, <2>1
             DEF Plans!Stop, Plans!handlers, Plans!history, Plans!RunsWhatWasConfirmed,
                 PlansShowsTask, PlansHandlers, PlansNames, PlansAgreedTo
<1> QED BY <1>1, <1>2, <1>3, <1>4, <1>5

LEMMA PlansRemovalKeeps ==
  ASSUME Plans!Assumptions, PlansInv, Plans!Delete \/ Plans!Answer(TRUE) \/ Plans!Answer(FALSE)
           \/ Plans!Deleted \/ Plans!DeleteFails
  PROVE  PlansInv'
<1> USE DEF PlansInv
<1>1. CASE Plans!Delete
  <2>1. plan.task \in Tasks
    BY <1>1 DEF Plans!Delete, PlansShowsTask, Plans!TypeOK
  <2>2. Plans!TypeOK'
    BY <1>1, <2>1 DEF Plans!TypeOK, Plans!Delete, Plans!server
  <2> QED BY <1>1, <2>1, <2>2
             DEF Plans!Delete, Plans!Covered, Plans!Idle, Plans!server,
                 Plans!RunsWhatWasConfirmed, PlansShowsTask, PlansHandlers, PlansNames,
                 PlansAgreedTo
<1>2. ASSUME NEW yes \in BOOLEAN, Plans!Answer(yes) PROVE PlansInv'
  <2>1. asked = removal.task /\ removal.task \in Tasks /\ run.pc \notin {"asking", "naming"}
    BY <1>2 DEF Plans!Answer, PlansHandlers, PlansNames
  <2>2. Plans!TypeOK'
    BY <1>2, <2>1 DEF Plans!TypeOK, Plans!Answer, Plans!Idle, Plans!server, Plans!Deeds
  <2>3. removal' = Plans!Idle \/ (/\ removal'.pc = "sent" /\ removal'.task = removal.task
                                  /\ agreed' = agreed \cup {<<"delete", removal.task>>})
    BY <1>2, <2>1 DEF Plans!Answer, Plans!TypeOK
  <2>4. agreed \subseteq agreed'
    BY <1>2 DEF Plans!Answer
  <2> QED BY <1>2, <2>1, <2>2, <2>3, <2>4
             DEF Plans!Answer, Plans!Idle, Plans!server, Plans!RunsWhatWasConfirmed,
                 PlansShowsTask, PlansHandlers, PlansNames, PlansAgreedTo
<1>3. CASE Plans!Deleted
  <2>1. removal.task \in Tasks /\ <<"delete", removal.task>> \in agreed
    BY <1>3 DEF Plans!Deleted, PlansHandlers, PlansAgreedTo
  <2>2. unasked' = unasked /\ agreed' = agreed \ {<<"delete", removal.task>>}
    BY <1>3, <2>1 DEF Plans!Deleted, Plans!Does
  <2>3. Plans!TypeOK'
    BY <1>3, <2>1, <2>2
       DEF Plans!TypeOK, Plans!Deleted, Plans!Idle, Plans!NoPlan, Plans!Reloads, Plans!Statuses
  <2>4. run.pc \in {"connecting", "posting"} => <<"execute", run.task>> \in agreed'
    BY <2>2 DEF PlansAgreedTo
  <2> QED BY <1>3, <2>1, <2>2, <2>3, <2>4
             DEF Plans!Deleted, Plans!Idle, Plans!NoPlan, Plans!RunsWhatWasConfirmed,
                 PlansShowsTask, PlansHandlers, PlansNames, PlansAgreedTo
<1>4. CASE Plans!DeleteFails
  <2>1. Plans!TypeOK'
    BY <1>4 DEF Plans!TypeOK, Plans!DeleteFails, Plans!Idle, Plans!server
  <2>2. run.pc \in {"connecting", "posting"} => <<"execute", run.task>> \in agreed'
    BY <1>4 DEF Plans!DeleteFails, PlansAgreedTo
  <2> QED BY <1>4, <2>1, <2>2
             DEF Plans!DeleteFails, Plans!Idle, Plans!server, Plans!RunsWhatWasConfirmed,
                 PlansShowsTask, PlansHandlers, PlansNames, PlansAgreedTo
<1> QED BY <1>1, <1>2, <1>3, <1>4

LEMMA PlansNextKeeps ==
  ASSUME Plans!Assumptions, PlansInv, [Plans!Next]_(Plans!vars)
  PROVE  PlansInv'
<1>1. CASE UNCHANGED Plans!vars
  BY <1>1
     DEF Plans!vars, PlansInv, Plans!TypeOK, Plans!RunsWhatWasConfirmed, PlansShowsTask,
         PlansHandlers, PlansNames, PlansAgreedTo
<1>2. CASE Plans!Next
  BY <1>2, PlansLooksKeep, PlansAsksKeep, PlansBegunKeeps, PlansResultsKeep, PlansRemovalKeeps
     DEF Plans!Next
<1> QED BY <1>1, <1>2

-----------------------------------------------------------------------------
(* The terminals: TerminalPane *)

TerminalsInv == Terminals!TypeOK /\ Terminals!LinesConfirmed

LEMMA TerminalsInitHolds == ASSUME Terminals!Assumptions, Terminals!Init PROVE TerminalsInv
BY DEF Terminals!Assumptions, Terminals!Init, TerminalsInv, Terminals!TypeOK,
       Terminals!LinesConfirmed, Terminals!NoAssistant

\* A shell gets what is allowed, which is taken from it.
LEMMA TerminalsReceivesAllowed ==
  ASSUME TerminalsInv, NEW p \in Panes, NEW text \in Texts,
         NEW agreement \in SUBSET (Panes \X Texts),
         <<p, text>> \in agreement, Terminals!Receives(p, text, agreement)
  PROVE  given' \subseteq Panes \X Texts /\ unconfirmed' = {}
BY DEF Terminals!Receives, TerminalsInv, Terminals!LinesConfirmed

LEMMA TerminalsPanesKeep ==
  ASSUME Terminals!Assumptions, TerminalsInv, NEW p \in Panes,
         Terminals!Mount(p) \/ Terminals!Opens(p) \/ Terminals!Closes(p)
           \/ Terminals!Unmount(p) \/ Terminals!Select(p)
  PROVE  TerminalsInv'
<1>1. CASE Terminals!Unmount(p)
  BY <1>1
     DEF Terminals!Unmount, TerminalsInv, Terminals!TypeOK, Terminals!LinesConfirmed,
         Terminals!NoAssistant
<1>2. CASE Terminals!Mount(p) \/ Terminals!Opens(p) \/ Terminals!Closes(p)
             \/ Terminals!Select(p)
  BY <1>2
     DEF Terminals!Mount, Terminals!Opens, Terminals!Closes, Terminals!Select, TerminalsInv,
         Terminals!TypeOK, Terminals!LinesConfirmed
<1> QED BY <1>1, <1>2

LEMMA TerminalsAssistantKeeps ==
  ASSUME Terminals!Assumptions, TerminalsInv, NEW p \in Panes,
         \/ Terminals!Generate(p) \/ Terminals!GenerationEnds(p) \/ Terminals!CloseAssistant(p)
         \/ \E text \in Texts : Terminals!Generated(p, text)
  PROVE  TerminalsInv'
<1>1. assistant' \in [Panes -> [busy : BOOLEAN, command : Texts \cup {Nothing}]]
  <2>1. ASSUME NEW busy \in BOOLEAN, assistant' = [assistant EXCEPT ![p].busy = busy]
        PROVE  assistant' \in [Panes -> [busy : BOOLEAN, command : Texts \cup {Nothing}]]
    BY <2>1 DEF TerminalsInv, Terminals!TypeOK
  <2>2. CASE Terminals!CloseAssistant(p)
    BY <2>2 DEF Terminals!CloseAssistant, Terminals!NoAssistant, TerminalsInv, Terminals!TypeOK
  <2>3. ASSUME NEW text \in Texts, Terminals!Generated(p, text)
        PROVE  assistant' \in [Panes -> [busy : BOOLEAN, command : Texts \cup {Nothing}]]
    BY <2>3 DEF Terminals!Generated, TerminalsInv, Terminals!TypeOK
  <2> QED BY <2>1, <2>2, <2>3 DEF Terminals!Generate, Terminals!GenerationEnds
<1>2. count' \in 0..MaxTexts /\ UNCHANGED <<pane, socket, active, questions, given,
                                            unconfirmed>>
  BY DEF Terminals!Generate, Terminals!GenerationEnds, Terminals!CloseAssistant,
         Terminals!Generated, Terminals!Counts, TerminalsInv, Terminals!TypeOK,
         Terminals!Assumptions
<1> QED BY <1>1, <1>2 DEF TerminalsInv, Terminals!TypeOK, Terminals!LinesConfirmed

\* A paste is given to the terminal that is shown, its answer to that of the question.
LEMMA TerminalsPasteKeeps ==
  ASSUME Terminals!Assumptions, TerminalsInv, NEW text \in Texts, Terminals!Paste(text)
  PROVE  TerminalsInv'
<1>1. active \in Panes /\ count' \in 0..MaxTexts
  BY DEF Terminals!Paste, Terminals!Counts, TerminalsInv, Terminals!TypeOK,
         Terminals!Assumptions
<1>2. questions' \subseteq Panes \X Texts
  BY <1>1 DEF Terminals!Paste, TerminalsInv, Terminals!TypeOK
<1>3. given' \subseteq Panes \X Texts /\ unconfirmed' = {}
  <2>1. CASE Terminals!Receives(active, text, given \cup {<<active, text>>})
    <3>1. given \cup {<<active, text>>} \in SUBSET (Panes \X Texts)
      BY <1>1 DEF TerminalsInv, Terminals!TypeOK
    <3> QED BY <1>1, <2>1, <3>1, TerminalsReceivesAllowed
  <2>2. CASE UNCHANGED <<given, unconfirmed>>
    BY <2>2 DEF TerminalsInv, Terminals!TypeOK, Terminals!LinesConfirmed
  <2> QED BY <2>1, <2>2 DEF Terminals!Paste
<1> QED BY <1>1, <1>2, <1>3
           DEF Terminals!Paste, TerminalsInv, Terminals!TypeOK, Terminals!LinesConfirmed

LEMMA TerminalsAnswerKeeps ==
  ASSUME Terminals!Assumptions, TerminalsInv, NEW q \in questions, NEW yes \in BOOLEAN,
         Terminals!PasteAnswered(q, yes)
  PROVE  TerminalsInv'
<1>1. PICK p \in Panes, text \in Texts : q = <<p, text>>
  BY DEF TerminalsInv, Terminals!TypeOK
<1>2. given' \subseteq Panes \X Texts /\ unconfirmed' = {}
  <2>1. CASE Terminals!Receives(Terminals!Target(q), q[2], given \cup {q})
    <3>1. given \cup {q} \in SUBSET (Panes \X Texts) /\ q = <<Terminals!Target(q), q[2]>>
      BY <1>1 DEF TerminalsInv, Terminals!TypeOK, Terminals!Target
    <3> QED BY <1>1, <2>1, <3>1, TerminalsReceivesAllowed DEF Terminals!Target
  <2>2. CASE UNCHANGED <<given, unconfirmed>>
    BY <2>2 DEF TerminalsInv, Terminals!TypeOK, Terminals!LinesConfirmed
  <2> QED BY <2>1, <2>2 DEF Terminals!PasteAnswered
<1> QED BY <1>2
           DEF Terminals!PasteAnswered, TerminalsInv, Terminals!TypeOK, Terminals!LinesConfirmed

\* What is inserted has no line break: it waits for the return key.
LEMMA TerminalsInsertAllowed ==
  ASSUME Terminals!Assumptions, TerminalsInv, NEW p \in Panes, NEW text \in Texts,
         Terminals!Insert(p, text)
  PROVE  given' \subseteq Panes \X Texts /\ unconfirmed' = {}
<1>1. CASE UNCHANGED <<given, unconfirmed>>
  BY <1>1 DEF TerminalsInv, Terminals!TypeOK, Terminals!LinesConfirmed
<1>2. CASE /\ Terminals!MayInsert(text)
           /\ Terminals!Receives(p, text, IF text \in Breaking THEN given ELSE given
                                 \cup {<<p, text>>})
  <2>1. text \notin Breaking
    BY <1>2 DEF Terminals!MayInsert, Terminals!Assumptions
  <2>2. given \cup {<<p, text>>} \in SUBSET (Panes \X Texts)
    BY DEF TerminalsInv, Terminals!TypeOK
  <2> QED BY <1>2, <2>1, <2>2, TerminalsReceivesAllowed
<1> QED BY <1>1, <1>2 DEF Terminals!Insert

LEMMA TerminalsInsertsKeep ==
  ASSUME Terminals!Assumptions, TerminalsInv,
         (\E p \in Panes : Terminals!FillIn(p)) \/ (\E text \in Texts : Terminals!Drop(text))
  PROVE  TerminalsInv'
<1>1. PICK p \in Panes, text \in Texts : Terminals!Insert(p, text) /\ Terminals!Counts
             /\ UNCHANGED assistant
  <2>1. ASSUME NEW text \in Texts, Terminals!Drop(text)
        PROVE  active \in Panes /\ Terminals!Insert(active, text) /\ Terminals!Counts
                 /\ UNCHANGED assistant
    BY <2>1 DEF Terminals!Drop, TerminalsInv, Terminals!TypeOK
  <2>2. ASSUME NEW p \in Panes, Terminals!FillIn(p)
        PROVE  /\ assistant[p].command \in Texts
               /\ Terminals!Insert(p, assistant[p].command) /\ Terminals!Counts
               /\ UNCHANGED assistant
    BY <2>2 DEF Terminals!FillIn
  <2> QED BY <2>1, <2>2
<1>2. count' \in 0..MaxTexts
  BY <1>1 DEF Terminals!Counts, TerminalsInv, Terminals!TypeOK, Terminals!Assumptions
<1>3. given' \subseteq Panes \X Texts /\ unconfirmed' = {}
  BY <1>1, TerminalsInsertAllowed
<1> QED BY <1>1, <1>2, <1>3
           DEF Terminals!Insert, TerminalsInv, Terminals!TypeOK, Terminals!LinesConfirmed

LEMMA TerminalsNextKeeps ==
  ASSUME Terminals!Assumptions, TerminalsInv, [Terminals!Next]_(Terminals!vars)
  PROVE  TerminalsInv'
<1>1. CASE UNCHANGED Terminals!vars
  BY <1>1 DEF Terminals!vars, TerminalsInv, Terminals!TypeOK, Terminals!LinesConfirmed
<1>2. CASE Terminals!Next
  BY <1>2, TerminalsPanesKeep, TerminalsAssistantKeeps, TerminalsPasteKeeps,
     TerminalsAnswerKeeps, TerminalsInsertsKeep DEF Terminals!Next
<1> QED BY <1>1, <1>2

-----------------------------------------------------------------------------
(* The form of a host: HostForm *)

FormTypes ==
  /\ known \in BOOLEAN /\ enabled \in BOOLEAN /\ id \in BOOLEAN /\ monitoring \in BOOLEAN
  /\ loaded \in BOOLEAN /\ wish \in BOOLEAN /\ done \in BOOLEAN /\ binding \in BOOLEAN
  /\ deleting \in BOOLEAN /\ gone \in BOOLEAN /\ listed \in BOOLEAN
  /\ hostForm \in {"open", "closing", "closed"} /\ step \in {"idle", "host", "agent"}
  /\ created \in Nat /\ clicks \in 0..MaxClicks /\ lost \in 0..MaxLost

\* A click makes one host at most, and only while the form does not know the host.
FormClicks == created + (IF step = "host" /\ ~done THEN 1 ELSE 0) <= clicks

\* Before the form knows the host, every host but the one of the request under way was made by
\* a request whose answer was lost.
FormMade ==
  /\ known => id /\ created = 0
  /\ step = "agent" => id
  /\ ~id => created = lost + (IF step = "host" /\ done THEN 1 ELSE 0)
  /\ id /\ ~known => created >= 1 /\ created <= 1 + lost

\* While the form is open, the agent is as it was, or as the request under way has left it.
FormSwitched ==
  lost = 0 /\ ~gone /\ hostForm = "open" =>
    binding = IF step = "agent" /\ done THEN wish ELSE enabled

\* After a success nothing is under way and nothing begins.
FormReported ==
  listed /\ ~gone => hostForm # "open" /\ step = "idle" /\ (lost = 0 => id /\ binding = wish)

FormInv == FormTypes /\ FormClicks /\ FormMade /\ FormSwitched /\ FormReported

LEMMA FormInitHolds == ASSUME Form!Assumptions, Form!Init PROVE FormInv
<1>1. FormTypes
  <2>1. known \in BOOLEAN /\ enabled \in BOOLEAN /\ id \in BOOLEAN /\ monitoring \in BOOLEAN
    BY Zenon DEF Form!Init
  <2>2. loaded \in BOOLEAN /\ binding \in BOOLEAN
    BY Zenon DEF Form!Init
  <2>3. /\ wish \in BOOLEAN /\ done \in BOOLEAN /\ deleting \in BOOLEAN /\ gone \in BOOLEAN
        /\ listed \in BOOLEAN
    BY Zenon DEF Form!Init
  <2>4. created \in Nat /\ clicks \in 0..MaxClicks /\ lost \in 0..MaxLost
    BY DEF Form!Init, Form!Assumptions
  <2>5. hostForm \in {"open", "closing", "closed"} /\ step \in {"idle", "host", "agent"}
    BY DEF Form!Init
  <2> QED BY <2>1, <2>2, <2>3, <2>4, <2>5, Zenon DEF FormTypes
<1>2. FormClicks
  BY DEF Form!Init, FormClicks
<1>3. FormMade
  BY DEF Form!Init, FormMade
<1>4. FormSwitched
  BY DEF Form!Init, FormSwitched
<1>5. FormReported
  BY DEF Form!Init, FormReported
<1> QED BY <1>1, <1>2, <1>3, <1>4, <1>5 DEF FormInv

LEMMA FormInvTyped == ASSUME Form!Assumptions, FormInv PROVE Form!TypeOK
BY DEF Form!Assumptions, FormInv, FormTypes, FormClicks, Form!TypeOK

LEMMA FormInvSaves == ASSUME Form!Assumptions, FormInv PROVE Form!SavedOnce
BY DEF Form!Assumptions, FormInv, FormTypes, FormMade, FormReported, Form!SavedOnce

\* The checkbox, the settings and the buttons.
LEMMA FormButtonsKeep ==
  ASSUME Form!Assumptions, FormInv, Form!SettingsLoaded \/ Form!Toggle \/ Form!Delete
           \/ Form!Cancel \/ Form!Gone PROVE FormInv'
<1>1. /\ UNCHANGED <<known, enabled, id, step, wish, done, created, binding, gone, clicks,
                     lost>>
      /\ hostForm' # "open" \/ hostForm' = hostForm
      /\ hostForm' \in {"open", "closing", "closed"}
      /\ listed' => listed
  BY DEF Form!SettingsLoaded, Form!Toggle, Form!Delete, Form!Cancel, Form!Gone, Form!server,
         FormInv, FormTypes
<1>2. /\ monitoring' \in BOOLEAN /\ loaded' \in BOOLEAN /\ deleting' \in BOOLEAN
      /\ listed' \in BOOLEAN
  BY Zenon
     DEF Form!SettingsLoaded, Form!Toggle, Form!Delete, Form!Cancel, Form!Gone, Form!server,
         FormInv, FormTypes
<1>3. FormTypes'
  BY <1>1, <1>2, Zenon DEF FormInv, FormTypes
<1>4. FormClicks' /\ FormMade'
  BY <1>1 DEF FormInv, FormClicks, FormMade
<1>5. FormSwitched'
  BY <1>1 DEF FormInv, FormSwitched
<1>6. FormReported'
  BY <1>1 DEF FormInv, FormReported, FormTypes
<1> QED BY <1>3, <1>4, <1>5, <1>6 DEF FormInv

LEMMA FormSaveKeeps == ASSUME Form!Assumptions, FormInv, Form!Save PROVE FormInv'
<1>1. /\ UNCHANGED <<known, enabled, id, monitoring, loaded, hostForm, created, binding,
                     deleting,
                      gone, listed, lost>>
      /\ hostForm = "open" /\ step = "idle" /\ step' = "host" /\ clicks' = clicks + 1
      /\ wish' = monitoring /\ done' = FALSE /\ clicks < MaxClicks
  BY DEF Form!Save, Form!server
<1>2. FormTypes'
  <2>1. clicks' \in 0..MaxClicks
    BY <1>1 DEF FormInv, FormTypes, Form!Assumptions
  <2> QED BY <1>1, <2>1, Zenon DEF FormInv, FormTypes
<1>3. FormClicks' /\ FormMade'
  BY <1>1 DEF FormInv, FormTypes, FormClicks, FormMade
<1>4. FormSwitched' /\ FormReported'
  BY <1>1 DEF FormInv, FormSwitched, FormReported
<1> QED BY <1>2, <1>3, <1>4 DEF FormInv

LEMMA FormServerKeeps ==
  ASSUME Form!Assumptions, FormInv, Form!SaveHost \/ Form!SwitchAgent
  PROVE  FormInv'
<1> USE DEF FormInv, FormTypes, FormClicks, FormMade, FormSwitched, FormReported
<1>1. CASE Form!SaveHost
  BY <1>1 DEF Form!SaveHost
<1>2. CASE Form!SwitchAgent
  BY <1>2 DEF Form!SwitchAgent
<1> QED BY <1>1, <1>2

LEMMA FormAnswersKeep ==
  ASSUME Form!Assumptions, FormInv, Form!HostSaved \/ Form!AgentSwitched
  PROVE  FormInv'
<1>0. /\ UNCHANGED <<known, enabled, monitoring, loaded, wish, created, binding, deleting, gone,
                      clicks, lost>>
      /\ hostForm' # "open" \/ hostForm' = hostForm
      /\ hostForm' \in {"open", "closing", "closed"}
  BY DEF Form!HostSaved, Form!AgentSwitched, Form!Closes, Form!server, FormInv, FormTypes
<1>1. CASE Form!HostSaved
  <2>1. step = "host" /\ done /\ id' = TRUE
    BY <1>1 DEF Form!HostSaved
  <2>2. CASE wish \/ enabled
    <3>1. step' = "agent" /\ done' = FALSE /\ hostForm' = hostForm /\ listed' = FALSE
      BY <1>1, <2>2 DEF Form!HostSaved
    <3>2. FormTypes'
      BY <1>0, <2>1, <3>1, Zenon DEF FormInv, FormTypes
    <3>3. FormClicks' /\ FormMade'
      BY <1>0, <2>1, <3>1 DEF FormInv, FormTypes, FormClicks, FormMade
    <3>4. FormSwitched' /\ FormReported'
      BY <1>0, <2>1, <3>1 DEF FormInv, FormTypes, FormSwitched, FormReported
    <3> QED BY <3>2, <3>3, <3>4 DEF FormInv
  <2>3. CASE ~(wish \/ enabled)
    <3>1. step' = "idle" /\ done' = done /\ hostForm' # "open" /\ listed' = (hostForm = "open")
      BY <1>1, <2>3 DEF Form!HostSaved, Form!Closes
    <3>2. FormTypes'
      BY <1>0, <2>1, <3>1, Zenon DEF FormInv, FormTypes
    <3>3. FormClicks' /\ FormMade'
      BY <1>0, <2>1, <3>1 DEF FormInv, FormTypes, FormClicks, FormMade
    <3>4. FormSwitched'
      BY <3>1 DEF FormSwitched
    <3>5. FormReported'
      BY <1>0, <2>1, <2>3, <3>1 DEF FormInv, FormTypes, FormSwitched, FormReported
    <3> QED BY <3>2, <3>3, <3>4, <3>5 DEF FormInv
  <2> QED BY <2>2, <2>3
<1>2. CASE Form!AgentSwitched
  <2>1. /\ step = "agent" /\ done /\ id' = id /\ done' = done
        /\ step' = "idle" /\ hostForm' # "open" /\ listed' = (hostForm = "open")
    BY <1>2 DEF Form!AgentSwitched, Form!Closes
  <2>2. FormTypes'
    BY <1>0, <2>1, Zenon DEF FormInv, FormTypes
  <2>3. FormClicks' /\ FormMade'
    BY <1>0, <2>1 DEF FormInv, FormTypes, FormClicks, FormMade
  <2>4. FormSwitched'
    BY <2>1 DEF FormSwitched
  <2>5. FormReported'
    BY <1>0, <2>1 DEF FormInv, FormTypes, FormMade, FormSwitched, FormReported
  <2> QED BY <2>2, <2>3, <2>4, <2>5 DEF FormInv
<1> QED BY <1>1, <1>2

\* A lost answer gives up what was known of the agent and lets the next click make another host.
LEMMA FormFailsKeep == ASSUME Form!Assumptions, FormInv, Form!Fails PROVE FormInv'
<1>1. /\ UNCHANGED <<known, enabled, id, monitoring, loaded, hostForm, wish, done, created,
                     binding,
                      deleting, gone, listed, clicks>>
      /\ step # "idle" /\ step' = "idle" /\ lost' = IF done THEN lost + 1 ELSE lost
      /\ done => lost < MaxLost
  BY DEF Form!Fails, Form!server
<1>2. FormTypes'
  <2>1. lost' \in 0..MaxLost
    BY <1>1 DEF FormInv, FormTypes, Form!Assumptions
  <2> QED BY <1>1, <2>1, Zenon DEF FormInv, FormTypes
<1>3. FormClicks' /\ FormMade'
  BY <1>1 DEF FormInv, FormTypes, FormClicks, FormMade
<1>4. FormSwitched'
  BY <1>1 DEF FormInv, FormTypes, FormSwitched
<1>5. FormReported'
  BY <1>1 DEF FormInv, FormTypes, FormReported
<1> QED BY <1>2, <1>3, <1>4, <1>5 DEF FormInv

LEMMA FormDeletedKeeps == ASSUME Form!Assumptions, FormInv, Form!Deleted PROVE FormInv'
<1>1. /\ UNCHANGED <<known, enabled, id, monitoring, loaded, step, wish, done, created, clicks,
                      lost>>
      /\ deleting' = FALSE
  BY DEF Form!Deleted
<1>2. CASE gone' = TRUE /\ binding' = FALSE /\ Form!Closes
             /\ listed' = (listed \/ hostForm = "open")
  <2>1. FormTypes'
    <3>1. hostForm' \in {"open", "closing", "closed"}
      BY <1>2 DEF Form!Closes, FormInv, FormTypes
    <3> QED BY <1>1, <1>2, <3>1, Zenon DEF FormInv, FormTypes
  <2>2. FormClicks' /\ FormMade'
    BY <1>1 DEF FormInv, FormClicks, FormMade
  <2>3. FormSwitched' /\ FormReported'
    BY <1>2 DEF FormSwitched, FormReported
  <2> QED BY <2>1, <2>2, <2>3 DEF FormInv
<1>3. CASE UNCHANGED <<gone, binding, hostForm, listed>>
  <2>1. FormTypes'
    <3>1. /\ known' \in BOOLEAN /\ enabled' \in BOOLEAN /\ id' \in BOOLEAN
          /\ monitoring' \in BOOLEAN /\ loaded' \in BOOLEAN /\ wish' \in BOOLEAN
          /\ done' \in BOOLEAN
      BY <1>1, Zenon DEF FormInv, FormTypes
    <3>2. /\ binding' \in BOOLEAN /\ deleting' \in BOOLEAN /\ gone' \in BOOLEAN
          /\ listed' \in BOOLEAN
      BY <1>1, <1>3, Zenon DEF FormInv, FormTypes
    <3>3. /\ hostForm' \in {"open", "closing", "closed"} /\ step' \in {"idle", "host", "agent"}
          /\ created' \in Nat /\ clicks' \in 0..MaxClicks /\ lost' \in 0..MaxLost
      BY <1>1, <1>3 DEF FormInv, FormTypes
    <3> QED BY <3>1, <3>2, <3>3, Zenon DEF FormTypes
  <2>2. FormClicks' /\ FormMade' /\ FormSwitched' /\ FormReported'
    BY <1>1, <1>3 DEF FormInv, FormClicks, FormMade, FormSwitched, FormReported
  <2> QED BY <2>1, <2>2 DEF FormInv
<1> QED BY <1>2, <1>3 DEF Form!Deleted

LEMMA FormNextKeeps == ASSUME Form!Assumptions, FormInv, [Form!Next]_(Form!vars) PROVE FormInv'
<1>1. CASE UNCHANGED Form!vars
  BY <1>1 DEF Form!vars, FormInv, FormTypes, FormClicks, FormMade, FormSwitched, FormReported
<1>2. CASE Form!Next
  BY <1>2, FormButtonsKeep, FormSaveKeeps, FormServerKeeps, FormAnswersKeep, FormFailsKeep,
     FormDeletedKeeps DEF Form!Next
<1> QED BY <1>1, <1>2

-----------------------------------------------------------------------------
(* The settings of the AI service: SettingsForm *)

\* What fills the form belongs to a form that is open.
SettingsFormOpen ==
  /\ load.step # "none" => panel.open
  /\ \A s \in Slots : puts[s].here => panel.open

\* As long as nothing was lost or overlapped, one request is under way at most, and what it will
\* fill into the form, or else what the form says already, is true of the server.
SettingsTold ==
  panel.open /\ ~untold =>
    /\ \A s \in Slots : ~Settings!Free(s) => /\ load.step = "none" /\ puts[s].here
                                             /\ \A r \in Slots : ~Settings!Free(r) => r = s
    /\ load.step = "read" => (load.has <=> key # None)
    /\ \A s \in Slots : puts[s].step = "written" => puts[s].key = key
    /\ load.step = "none" /\ (\A s \in Slots : puts[s].step # "written") =>
         (panel.has <=> key # None)

SettingsKept == key = due \/ overtaken

SettingsInv == Settings!TypeOK /\ SettingsKept /\ SettingsFormOpen /\ SettingsTold

SettingsPut    == [step : {"none", "sent", "read", "written"}, data : Settings!Data,
           typed : Keys \cup {None}, clear : BOOLEAN, key : Keys \cup {None}, here : BOOLEAN]
SettingsPanel  == [open : BOOLEAN, data : Settings!Data, typed : Keys \cup {None},
                   clear : BOOLEAN, has : BOOLEAN]
SettingsLoadOf == [step : {"none", "sent", "read"}, data : Settings!Data, has : BOOLEAN]

LEMMA SettingsEmptyTyped ==
  /\ Settings!Empty \in SettingsPanel /\ Settings!NoLoad \in SettingsLoadOf
  /\ Settings!NoPut \in SettingsPut
  /\ ~Settings!Empty.open /\ Settings!NoLoad.step = "none" /\ Settings!NoPut.step = "none"
  /\ ~Settings!NoPut.here
BY DEF Settings!Empty, Settings!NoLoad, Settings!NoPut, SettingsPanel, SettingsLoadOf,
       SettingsPut, Settings!Data, Settings!Sources

LEMMA SettingsInitHolds == ASSUME Settings!Assumptions, Settings!Init PROVE SettingsInv
<1>1. data \in Settings!Data
  BY DEF Settings!Init, Settings!Data
<1>2. puts \in [Slots -> SettingsPut] /\ \A s \in Slots : puts[s] = Settings!NoPut
  BY SettingsEmptyTyped DEF Settings!Init
<1>3. Settings!TypeOK
  <2>1. /\ key \in Keys \cup {None} /\ due \in Keys \cup {None}
        /\ panel = Settings!Empty /\ load = Settings!NoLoad /\ overtaken \in BOOLEAN
        /\ untold \in BOOLEAN
    BY DEF Settings!Init
  <2>2. submits \in 0..MaxSubmits /\ changes \in 0..MaxChanges
    BY DEF Settings!Init, Settings!Assumptions
  <2> QED BY <1>1, <1>2, <2>1, <2>2, SettingsEmptyTyped
             DEF Settings!TypeOK, SettingsPanel, SettingsLoadOf, SettingsPut
<1> QED BY <1>2, <1>3, SettingsEmptyTyped
           DEF Settings!Init, SettingsInv, SettingsKept, SettingsFormOpen, SettingsTold

LEMMA SettingsInvKeeps == ASSUME Settings!Assumptions, SettingsInv PROVE Settings!KeyKept
<1>1. key = due \/ overtaken
  BY DEF SettingsInv, SettingsKept
<1>2. ASSUME panel.open, Settings!AllQuiet, ~untold PROVE panel.has <=> key # None
  BY <1>2 DEF SettingsInv, SettingsTold, Settings!AllQuiet, Settings!Free
<1>3. panel.has \in BOOLEAN
  BY DEF SettingsInv, Settings!TypeOK
<1> QED BY <1>1, <1>2, <1>3 DEF Settings!KeyKept

LEMMA SettingsTyped ==
  ASSUME SettingsInv
  PROVE  panel \in SettingsPanel /\ load \in SettingsLoadOf /\ puts \in [Slots -> SettingsPut]
BY DEF SettingsInv, Settings!TypeOK, SettingsPanel, SettingsLoadOf, SettingsPut

\* The form is filled with the answer of a request that was alone.
LEMMA SettingsFillsTyped ==
  ASSUME NEW d \in Settings!Data, NEW has \in BOOLEAN, Settings!Fills(d, has)
  PROVE  panel' \in SettingsPanel /\ panel'.open /\ panel'.has = has
BY DEF Settings!Fills, SettingsPanel

LEMMA SettingsPanelKeeps ==
  ASSUME Settings!Assumptions, SettingsInv, Settings!Open \/ Settings!Close
  PROVE  SettingsInv'
<1> USE SettingsEmptyTyped, SettingsTyped
<1>1. CASE Settings!Open
  <2>1. /\ panel' \in SettingsPanel /\ load' \in SettingsLoadOf /\ load'.step = "sent"
        /\ panel'.open
    BY <1>1 DEF Settings!Open, SettingsPanel, SettingsLoadOf
  <2>2. /\ UNCHANGED <<data, key, puts, submits, changes, due, overtaken>>
        /\ untold' = ~Settings!AllQuiet
    BY <1>1 DEF Settings!Open
  <2>3. Settings!TypeOK'
    BY <2>1, <2>2 DEF SettingsInv, Settings!TypeOK, SettingsPanel, SettingsLoadOf
  <2>4. SettingsTold'
    BY <2>1, <2>2 DEF SettingsTold, Settings!AllQuiet, Settings!Free
  <2> QED BY <2>1, <2>2, <2>3, <2>4 DEF SettingsInv, SettingsKept, SettingsFormOpen
<1>2. CASE Settings!Close
  <2>1. /\ panel' = Settings!Empty /\ load' = Settings!NoLoad
        /\ UNCHANGED <<data, key, submits, changes, due, overtaken, untold>>
        /\ puts' = [s \in Slots |-> [puts[s] EXCEPT !.here = FALSE]]
    BY <1>2 DEF Settings!Close
  <2>2. puts' \in [Slots -> SettingsPut] /\ \A s \in Slots : ~puts'[s].here
    BY <2>1 DEF SettingsPut
  <2>3. Settings!TypeOK'
    BY <2>1, <2>2 DEF SettingsInv, Settings!TypeOK, SettingsPanel, SettingsLoadOf, SettingsPut
  <2> QED BY <2>1, <2>2, <2>3 DEF SettingsInv, SettingsKept, SettingsFormOpen, SettingsTold
<1> QED BY <1>1, <1>2

LEMMA SettingsLoadKeeps ==
  ASSUME Settings!Assumptions, SettingsInv, Settings!Read \/ Settings!Loaded
           \/ Settings!LoadFails PROVE SettingsInv'
<1> USE SettingsEmptyTyped, SettingsTyped
<1>1. CASE Settings!Read
  <2>1. load' = [step |-> "read", data |-> data, has |-> key # None] /\ load.step = "sent"
    BY <1>1 DEF Settings!Read
  <2>2. load' \in SettingsLoadOf /\ load'.step = "read" /\ (load'.has <=> key # None)
    BY <2>1 DEF SettingsLoadOf, SettingsInv, Settings!TypeOK
  <2>3. UNCHANGED <<data, key, panel, puts, submits, changes, due, overtaken, untold>>
    BY <1>1 DEF Settings!Read
  <2>4. Settings!TypeOK'
    BY <2>2, <2>3 DEF SettingsInv, Settings!TypeOK, SettingsLoadOf
  <2> QED BY <2>1, <2>2, <2>3, <2>4
             DEF SettingsInv, SettingsKept, SettingsFormOpen, SettingsTold, Settings!Free
<1>2. CASE Settings!Loaded
  <2>1. /\ load.step = "read" /\ load' = Settings!NoLoad /\ load.data \in Settings!Data
        /\ load.has \in BOOLEAN
    BY <1>2 DEF Settings!Loaded, SettingsLoadOf
  <2>2. UNCHANGED <<data, key, puts, submits, changes, due, overtaken, untold>>
    BY <1>2 DEF Settings!Loaded
  <2>3. panel' \in SettingsPanel /\ panel'.open /\ panel'.has = load.has
    BY <1>2, <2>1, SettingsFillsTyped DEF Settings!Loaded
  <2>4. Settings!TypeOK'
    BY <2>1, <2>2, <2>3 DEF SettingsInv, Settings!TypeOK, SettingsLoadOf, SettingsPanel
  <2>5. SettingsTold'
    BY <2>1, <2>2, <2>3 DEF SettingsInv, SettingsTold, SettingsFormOpen, Settings!Free
  <2> QED BY <2>1, <2>2, <2>3, <2>4, <2>5 DEF SettingsInv, SettingsKept, SettingsFormOpen
<1>3. CASE Settings!LoadFails
  <2>1. load' = Settings!NoLoad /\ untold' = TRUE
          /\ UNCHANGED <<data, key, panel, puts, submits, changes, due,
                                                                overtaken>>
    BY <1>3 DEF Settings!LoadFails
  <2>2. Settings!TypeOK'
    BY <2>1 DEF SettingsInv, Settings!TypeOK, SettingsLoadOf
  <2> QED BY <2>1, <2>2 DEF SettingsInv, SettingsKept, SettingsFormOpen, SettingsTold
<1> QED BY <1>1, <1>2, <1>3

LEMMA SettingsEditKeeps ==
  ASSUME Settings!Assumptions, SettingsInv, Settings!Edit
  PROVE  SettingsInv'
<1> USE SettingsTyped
<1>1. /\ UNCHANGED <<data, key, load, puts, submits, due, overtaken, untold>>
      /\ changes' \in 0..MaxChanges
  BY DEF Settings!Edit, SettingsInv, Settings!TypeOK, Settings!Assumptions
<1>2. panel' \in SettingsPanel /\ panel'.open = panel.open /\ panel'.has = panel.has
  <2>1. ASSUME NEW s \in Settings!Sources, panel' = [panel EXCEPT !.data.source = s]
        PROVE  panel' \in SettingsPanel /\ panel'.open = panel.open /\ panel'.has = panel.has
    BY <2>1 DEF SettingsPanel, Settings!Data
  <2>2. CASE panel' = [panel EXCEPT !.data.filled = TRUE]
    BY <2>2 DEF SettingsPanel, Settings!Data
  <2>3. ASSUME NEW k \in Keys \cup {None}, panel' = [panel EXCEPT !.typed = k]
        PROVE  panel' \in SettingsPanel /\ panel'.open = panel.open /\ panel'.has = panel.has
    BY <2>3 DEF SettingsPanel
  <2>4. CASE panel' = [panel EXCEPT !.clear = ~@]
    BY <2>4 DEF SettingsPanel
  <2> QED BY <2>1, <2>2, <2>3, <2>4 DEF Settings!Edit
<1>3. Settings!TypeOK'
  BY <1>1, <1>2 DEF SettingsInv, Settings!TypeOK, SettingsPanel
<1> QED BY <1>1, <1>2, <1>3
           DEF SettingsInv, SettingsKept, SettingsFormOpen, SettingsTold, Settings!Free

\* One request changes and the others stay as they were.
LEMMA SettingsOnePut ==
  ASSUME SettingsInv, NEW s \in Slots, NEW p \in SettingsPut, puts' = [puts EXCEPT ![s] = p]
  PROVE  /\ puts' \in [Slots -> SettingsPut] /\ puts'[s] = p
         /\ \A r \in Slots : r # s => puts'[r] = puts[r]
BY SettingsTyped

LEMMA SettingsSaveKeeps ==
  ASSUME Settings!Assumptions, SettingsInv, NEW s \in Slots, Settings!Save(s)
  PROVE  SettingsInv'
<1> DEFINE p == [step |-> "sent", data |-> panel.data, typed |-> panel.typed,
                 clear |-> panel.clear, key |-> None, here |-> TRUE]
<1>1. p \in SettingsPut /\ p.step = "sent" /\ p.here
  BY SettingsTyped DEF SettingsPut, SettingsPanel
<1>2. /\ puts' = [puts EXCEPT ![s] = p] /\ panel.open /\ Settings!Free(s)
      /\ untold' = (untold \/ ~Settings!AllQuiet)
      /\ UNCHANGED <<data, key, panel, load, changes, due, overtaken>>
      /\ submits' \in 0..MaxSubmits
  BY DEF Settings!Save, SettingsInv, Settings!TypeOK, Settings!Assumptions
<1> HIDE DEF p
<1>3. /\ puts' \in [Slots -> SettingsPut] /\ puts'[s] = p
      /\ \A r \in Slots : r # s => puts'[r] = puts[r]
  BY <1>1, <1>2, SettingsOnePut
<1>4. Settings!TypeOK'
  <2>1. untold' \in BOOLEAN
    BY <1>2
  <2> QED BY <1>2, <1>3, <2>1 DEF SettingsInv, Settings!TypeOK, SettingsPut
<1>5. SettingsTold'
  <2>1. SUFFICES ASSUME ~untold' PROVE SettingsTold'
    BY DEF SettingsTold
  <2>2. ~untold /\ load.step = "none" /\ \A r \in Slots : puts[r].step = "none"
    BY <1>2, <2>1 DEF Settings!AllQuiet, Settings!Free
  <2> QED BY <1>1, <1>2, <1>3, <2>2 DEF SettingsInv, SettingsTold, Settings!Free
<1>6. SettingsFormOpen'
  BY <1>1, <1>2, <1>3 DEF SettingsInv, SettingsFormOpen
<1> QED BY <1>2, <1>4, <1>5, <1>6 DEF SettingsInv, SettingsKept

LEMMA SettingsLoadAIKeeps ==
  ASSUME Settings!Assumptions, SettingsInv, NEW s \in Slots, Settings!LoadAI(s)
  PROVE  SettingsInv'
<1> DEFINE p == [puts[s] EXCEPT !.step = "read", !.key = key]
<1>1. puts[s] \in SettingsPut /\ puts[s].step = "sent" /\ key \in Keys \cup {None}
  BY SettingsTyped DEF Settings!LoadAI, SettingsInv, Settings!TypeOK
<1>2. p \in SettingsPut /\ p.step = "read" /\ p.here = puts[s].here
  BY <1>1 DEF SettingsPut
<1>3. /\ puts' = [puts EXCEPT ![s] = p]
      /\ UNCHANGED <<data, key, panel, load, submits, changes, due, overtaken, untold>>
  BY SettingsTyped DEF Settings!LoadAI
<1> HIDE DEF p
<1>4. /\ puts' \in [Slots -> SettingsPut] /\ puts'[s] = p
      /\ \A r \in Slots : r # s => puts'[r] = puts[r]
  BY <1>2, <1>3, SettingsOnePut
<1>5. Settings!TypeOK'
  BY <1>3, <1>4 DEF SettingsInv, Settings!TypeOK, SettingsPut
<1>6. SettingsTold'
  BY <1>1, <1>2, <1>3, <1>4 DEF SettingsInv, SettingsTold, Settings!Free
<1>7. SettingsFormOpen'
  BY <1>2, <1>3, <1>4 DEF SettingsInv, SettingsFormOpen
<1> QED BY <1>3, <1>5, <1>6, <1>7 DEF SettingsInv, SettingsKept

\* Only a save that keeps a key that has changed since it was read undoes another one.
LEMMA SettingsWriteKeeps ==
  ASSUME Settings!Assumptions, SettingsInv, NEW s \in Slots, Settings!Write(s)
  PROVE  SettingsInv'
<1> DEFINE old == puts[s]
           p   == [puts[s] EXCEPT !.step = "written", !.key = key']
<1>1. old \in SettingsPut /\ old.step = "read"
  BY SettingsTyped DEF Settings!Write
<1>2. /\ data' = old.data /\ key' = Settings!Chosen(old, old.key)
      /\ due' = Settings!Chosen(old, due)
      /\ overtaken' = (old.typed = None /\ ~old.clear /\ (overtaken \/ old.key # key))
      /\ UNCHANGED <<panel, load, submits, changes, untold>>
  BY DEF Settings!Write
<1>3. data' \in Settings!Data /\ key' \in Keys \cup {None} /\ due' \in Keys \cup {None}
  BY <1>1, <1>2 DEF Settings!Chosen, SettingsPut, SettingsInv, Settings!TypeOK
<1>4. p \in SettingsPut /\ p.step = "written" /\ p.here = old.here /\ p.key = key'
  BY <1>1, <1>3 DEF SettingsPut
<1>5. puts' = [puts EXCEPT ![s] = p]
  BY SettingsTyped DEF Settings!Write
<1>6. SettingsKept'
  <2>1. CASE old.typed # None \/ old.clear
    BY <1>2, <2>1 DEF Settings!Chosen, SettingsKept
  <2>2. CASE old.typed = None /\ ~old.clear
    <3>1. key' = old.key /\ due' = due /\ overtaken' = (overtaken \/ old.key # key)
      BY <1>2, <2>2 DEF Settings!Chosen
    <3> QED BY <3>1 DEF SettingsInv, SettingsKept
  <2> QED BY <2>1, <2>2
<1> HIDE DEF p, old
<1>7. /\ puts' \in [Slots -> SettingsPut] /\ puts'[s] = p
      /\ \A r \in Slots : r # s => puts'[r] = puts[r]
  BY <1>4, <1>5, SettingsOnePut
<1>8. Settings!TypeOK'
  <2>1. overtaken' \in BOOLEAN
    BY <1>2
  <2> QED BY <1>2, <1>3, <1>7, <2>1 DEF SettingsInv, Settings!TypeOK, SettingsPut
<1>9. SettingsTold'
  <2>1. puts[s].step = "read"
    BY <1>1 DEF old
  <2> QED BY <1>2, <1>4, <1>7, <2>1 DEF SettingsInv, SettingsTold, Settings!Free, old
<1>10. SettingsFormOpen'
  BY <1>2, <1>4, <1>7 DEF SettingsInv, SettingsFormOpen, old
<1> QED BY <1>6, <1>8, <1>9, <1>10 DEF SettingsInv

LEMMA SettingsAnswersKeep ==
  ASSUME Settings!Assumptions, SettingsInv, NEW s \in Slots, Settings!SaveAnswered(s)
           \/ Settings!SaveFails(s) PROVE SettingsInv'
<1>1. /\ puts' = [puts EXCEPT ![s] = Settings!NoPut]
      /\ UNCHANGED <<data, key, load, submits, changes, due, overtaken>>
      /\ puts[s].step # "none"
  BY DEF Settings!SaveAnswered, Settings!SaveFails
<1>2. /\ puts' \in [Slots -> SettingsPut] /\ puts'[s] = Settings!NoPut
      /\ \A r \in Slots : r # s => puts'[r] = puts[r]
  BY <1>1, SettingsOnePut, SettingsEmptyTyped
<1>3. puts[s] \in SettingsPut
  BY SettingsTyped
<1>4. CASE Settings!SaveFails(s)
  <2>1. untold' = (untold \/ puts[s].step = "written") /\ UNCHANGED panel
    BY <1>4 DEF Settings!SaveFails
  <2>2. Settings!TypeOK'
    <3>1. untold' \in BOOLEAN
      BY <2>1
    <3> QED BY <1>1, <1>2, <2>1, <3>1 DEF SettingsInv, Settings!TypeOK, SettingsPut
  <2>3. SettingsTold'
    BY <1>1, <1>2, <2>1, SettingsEmptyTyped DEF SettingsInv, SettingsTold, Settings!Free
  <2>4. SettingsFormOpen'
    BY <1>1, <1>2, <2>1, SettingsEmptyTyped DEF SettingsInv, SettingsFormOpen
  <2> QED BY <1>1, <2>2, <2>3, <2>4 DEF SettingsInv, SettingsKept
<1>5. CASE Settings!SaveAnswered(s)
  <2>1. untold' = untold /\ puts[s].step = "written"
    BY <1>5 DEF Settings!SaveAnswered
  <2>2. CASE ~puts[s].here /\ UNCHANGED panel
    <3>1. Settings!TypeOK'
      BY <1>1, <1>2, <2>1, <2>2 DEF SettingsInv, Settings!TypeOK, SettingsPut
    <3>2. SettingsTold'
      BY <1>1, <1>2, <2>1, <2>2, SettingsEmptyTyped DEF SettingsInv, SettingsTold, Settings!Free
    <3>3. SettingsFormOpen'
      BY <1>1, <1>2, <2>2, SettingsEmptyTyped DEF SettingsInv, SettingsFormOpen
    <3> QED BY <1>1, <3>1, <3>2, <3>3 DEF SettingsInv, SettingsKept
  <2>3. CASE puts[s].here /\ Settings!Fills(puts[s].data, puts[s].key # None)
    <3>1. panel' \in SettingsPanel /\ panel'.open /\ panel'.has = (puts[s].key # None)
      <4>1. puts[s].data \in Settings!Data /\ (puts[s].key # None) \in BOOLEAN
        BY <1>3 DEF SettingsPut
      <4> QED BY <2>3, <4>1, SettingsFillsTyped
    <3>2. Settings!TypeOK'
      BY <1>1, <1>2, <2>1, <3>1 DEF SettingsInv, Settings!TypeOK, SettingsPut, SettingsPanel
    <3>3. SettingsTold'
      BY <1>1, <1>2, <2>1, <2>3, <3>1, SettingsEmptyTyped
         DEF SettingsInv, SettingsTold, Settings!Free, SettingsFormOpen
    <3>4. SettingsFormOpen'
      BY <3>1 DEF SettingsFormOpen
    <3> QED BY <1>1, <3>2, <3>3, <3>4 DEF SettingsInv, SettingsKept
  <2> QED BY <1>5, <2>2, <2>3 DEF Settings!SaveAnswered
<1> QED BY <1>4, <1>5

LEMMA SettingsNextKeeps ==
  ASSUME Settings!Assumptions, SettingsInv, [Settings!Next]_(Settings!vars)
  PROVE  SettingsInv'
<1>1. CASE UNCHANGED Settings!vars
  BY <1>1
     DEF Settings!vars, SettingsInv, Settings!TypeOK, SettingsKept, SettingsFormOpen,
         SettingsTold, Settings!Free
<1>2. CASE Settings!Next
  BY <1>2, SettingsPanelKeeps, SettingsLoadKeeps, SettingsEditKeeps, SettingsSaveKeeps,
     SettingsLoadAIKeeps, SettingsWriteKeeps, SettingsAnswersKeep DEF Settings!Next
<1> QED BY <1>1, <1>2

-----------------------------------------------------------------------------
(* The page of monitoring: MonitorForms *)

\* The page is ready when its first load is over.
MonitorInv == Monitor!TypeOK /\ (ready => first = "over")

LEMMA MonitorSettingsTyped ==
  ASSUME Monitor!Assumptions
  PROVE  Monitor!NoWrite \in [kind : Monitor!Kinds \cup {"none"},
                              step : {"none", "sent", "written", "reading"},
                      settings : Monitor!Settings]
BY DEF Monitor!Assumptions, Monitor!NoWrite, Monitor!Settings, Monitor!Kinds

LEMMA MonitorInitHolds == ASSUME Monitor!Assumptions, Monitor!Init PROVE MonitorInv
<1>1. Monitor!NoWrite.settings \in Monitor!Settings
  BY DEF Monitor!Assumptions, Monitor!NoWrite, Monitor!Settings
<1>2. stored \in Monitor!Agents
  BY DEF Monitor!Init, Monitor!Agents, Monitor!Settings
<1>3. rules \in Values /\ alerts \in Values /\ form \in Monitor!Settings
  BY <1>1 DEF Monitor!Assumptions, Monitor!Init
<1>4. edits \in 0..MaxEdits /\ writes \in 0..MaxWrites
  BY DEF Monitor!Assumptions, Monitor!Init
<1>5. reads \in [Reads -> Monitor!Agents \cup {None}]
  BY DEF Monitor!Init
<1> QED BY <1>2, <1>3, <1>4, <1>5, MonitorSettingsTyped
           DEF Monitor!Init, MonitorInv, Monitor!TypeOK

LEMMA MonitorReadsKeep ==
  ASSUME Monitor!Assumptions, MonitorInv,
         \/ \E r \in Reads : Monitor!Refresh(r) \/ Monitor!Refreshed(r)
              \/ Monitor!RefreshFails(r)
         \/ Monitor!Loaded \/ Monitor!Ready \/ Monitor!FirstFails
  PROVE  MonitorInv'
<1> USE DEF Monitor!Assumptions, MonitorInv, Monitor!TypeOK, Monitor!Agents
<1>1. ASSUME NEW r \in Reads, Monitor!Refresh(r) PROVE MonitorInv'
  BY <1>1 DEF Monitor!Refresh
<1>2. ASSUME NEW r \in Reads, Monitor!Refreshed(r) PROVE MonitorInv'
  BY <1>2 DEF Monitor!Refreshed
<1>3. ASSUME NEW r \in Reads, Monitor!RefreshFails(r) PROVE MonitorInv'
  BY <1>3 DEF Monitor!RefreshFails
<1>4. CASE Monitor!Loaded
  BY <1>4 DEF Monitor!Loaded
<1>5. CASE Monitor!Ready
  BY <1>5 DEF Monitor!Ready
<1>6. CASE Monitor!FirstFails
  BY <1>6 DEF Monitor!FirstFails
<1> QED BY <1>1, <1>2, <1>3, <1>4, <1>5, <1>6

\* An action of the page starts.
LEMMA MonitorStartsKeeps ==
  ASSUME Monitor!Assumptions, MonitorInv, NEW kind \in Monitor!Kinds,
         NEW settings \in Monitor!Settings, Monitor!Starts(kind, settings)
  PROVE  MonitorInv'
<1>1. write' \in [kind : Monitor!Kinds \cup {"none"},
                  step : {"none", "sent", "written", "reading"},
                  settings : Monitor!Settings]
  BY DEF Monitor!Starts
<1> QED BY <1>1 DEF Monitor!Assumptions, MonitorInv, Monitor!TypeOK, Monitor!Starts

LEMMA MonitorActionsKeep ==
  ASSUME Monitor!Assumptions, MonitorInv,
         Monitor!SaveConfig \/ Monitor!Pause \/ Monitor!Enable \/ Monitor!Revoke
           \/ Monitor!SaveAlerts \/ Monitor!Order
  PROVE  MonitorInv'
<1>1. form \in Monitor!Settings /\ alerts \in Values
        /\ (info # None => info.settings \in Monitor!Settings)
  BY DEF MonitorInv, Monitor!TypeOK, Monitor!Agents
<1>2. CASE Monitor!SaveConfig \/ Monitor!Enable \/ Monitor!Revoke \/ Monitor!Order
  BY <1>1, <1>2, MonitorStartsKeeps
     DEF Monitor!SaveConfig, Monitor!Enable, Monitor!Revoke, Monitor!Order, Monitor!Kinds
<1>3. CASE Monitor!SaveAlerts
  <2>1. [value |-> alerts, paused |-> FALSE] \in Monitor!Settings
    BY <1>1 DEF Monitor!Settings
  <2> QED BY <1>3, <2>1, MonitorStartsKeeps DEF Monitor!SaveAlerts, Monitor!Kinds
<1>4. CASE Monitor!Pause
  <2>1. (IF info = None THEN [form EXCEPT !.paused = TRUE]
         ELSE [info.settings EXCEPT !.paused = ~@]) \in Monitor!Settings
    BY <1>1 DEF Monitor!Settings
  <2> QED BY <1>4, <2>1, MonitorStartsKeeps DEF Monitor!Pause, Monitor!Kinds
<1> QED BY <1>2, <1>3, <1>4

LEMMA MonitorWritesKeep ==
  ASSUME Monitor!Assumptions, MonitorInv, Monitor!Write \/ Monitor!Written
           \/ Monitor!RefreshedAfter \/ Monitor!WriteFails
  PROVE  MonitorInv'
<1>1. CASE Monitor!Write
  <2>1. stored' \in Monitor!Agents
    BY <1>1 DEF MonitorInv, Monitor!TypeOK, Monitor!Agents, Monitor!Settings, Monitor!Write
  <2>2. rules' \in Values
    BY <1>1 DEF MonitorInv, Monitor!TypeOK, Monitor!Settings, Monitor!Write
  <2>3. write' \in [kind : Monitor!Kinds \cup {"none"},
                    step : {"none", "sent", "written", "reading"},
                    settings : Monitor!Settings]
    BY <1>1 DEF MonitorInv, Monitor!TypeOK, Monitor!Write
  <2> QED BY <1>1, <2>1, <2>2, <2>3 DEF MonitorInv, Monitor!TypeOK, Monitor!Write
<1>2. CASE Monitor!Written
  BY <1>2 DEF MonitorInv, Monitor!TypeOK, Monitor!Written
<1>3. CASE Monitor!RefreshedAfter \/ Monitor!WriteFails
  BY <1>3, MonitorSettingsTyped
     DEF MonitorInv, Monitor!TypeOK, Monitor!RefreshedAfter, Monitor!WriteFails
<1> QED BY <1>1, <1>2, <1>3

LEMMA MonitorEditsKeep ==
  ASSUME Monitor!Assumptions, MonitorInv, NEW v \in Values, Monitor!Edit(v)
           \/ Monitor!EditAlerts(v) PROVE MonitorInv'
BY DEF Monitor!Assumptions, MonitorInv, Monitor!TypeOK, Monitor!Settings, Monitor!Edit,
       Monitor!EditAlerts

LEMMA MonitorNextKeeps ==
  ASSUME Monitor!Assumptions, MonitorInv, [Monitor!Next]_(Monitor!vars)
  PROVE  MonitorInv'
<1>1. CASE Monitor!Next
  BY <1>1, MonitorReadsKeep, MonitorActionsKeep, MonitorWritesKeep, MonitorEditsKeep
     DEF Monitor!Next
<1>2. CASE UNCHANGED Monitor!vars
  BY <1>2 DEF MonitorInv, Monitor!TypeOK, Monitor!vars
<1> QED BY <1>1, <1>2

\* What may change the forms of a page that has loaded, if the user does not edit.
LEMMA MonitorStep ==
  ASSUME Monitor!Assumptions, MonitorInv, Monitor!Next, ready, edits' = edits
  PROVE  /\ form' = form \/ write.kind = "pause"
         /\ alerts' = alerts \/ write.kind = "alerts"
<1>1. \A v \in Values : ~Monitor!Edit(v) /\ ~Monitor!EditAlerts(v)
  <2>1. edits \in Nat /\ edits' = edits
    BY DEF MonitorInv, Monitor!TypeOK
  <2>2. edits + 1 # edits
    BY <2>1
  <2> QED BY <2>1, <2>2 DEF Monitor!Edit, Monitor!EditAlerts
<1>2. CASE Monitor!Loaded \/ Monitor!Ready
  BY <1>2 DEF MonitorInv, Monitor!Loaded, Monitor!Ready
<1>3. CASE Monitor!Written
  BY <1>3 DEF Monitor!Written
<1>4. CASE UNCHANGED <<form, alerts>>
  BY <1>4
<1> QED BY <1>1, <1>2, <1>3, <1>4 DEF Monitor!Next, Monitor!Refresh, Monitor!Refreshed,
           Monitor!RefreshFails, Monitor!FirstFails, Monitor!SaveConfig, Monitor!Pause,
           Monitor!Enable, Monitor!Revoke, Monitor!SaveAlerts, Monitor!Order, Monitor!Starts,
           Monitor!Write, Monitor!RefreshedAfter, Monitor!WriteFails

-----------------------------------------------------------------------------
(* The text editors: TextFiles *)

TextSteps   == {"none", "sent", "locked", "written", "checked", "saved", "conflict"}
TextRequest == [step : TextSteps, path : Files \cup {None}, content : Text!AnyText,
                version : Text!AnyText,
            here : BOOLEAN]

\* A text that is shown, or that a save compares with, has been seen; and a save says what to
\* write.
TextVersionsSeen ==
  \A e \in Editors :
    /\ file[e] # None => version[e] \in seen[e] /\ content[e] \in Contents
    /\ save[e].step # "none" =>
         /\ save[e].version \in seen[e]
         /\ save[e].path \in Files /\ save[e].content \in Contents

\* From the first check to the rename a save holds the lock of its file.
TextLocked ==
  \A e \in Editors :
    save[e].step \in {"locked", "written", "checked"} => lock[save[e].path] = e

\* What passed the second check is there until the rename, but for other programs.
TextStaysChecked ==
  \A e \in Editors :
    save[e].step = "checked" => disk[save[e].path] = save[e].version \/ save[e].path \in slipped

TextInv == Text!TypeOK /\ TextVersionsSeen /\ TextLocked /\ TextStaysChecked

LEMMA TextInitHolds == ASSUME Text!Assumptions, Text!Init PROVE TextInv
<1>1. Text!NoSave \in TextRequest /\ Text!NoSave.step = "none"
  BY DEF Text!NoSave, TextRequest, TextSteps, Text!AnyText
<1>2. Text!TypeOK
  BY <1>1 DEF Text!Init, Text!TypeOK, Text!Assumptions, Text!AnyText, TextRequest, TextSteps
<1>3. \A e \in Editors : save[e].step = "none" /\ file[e] = None
  BY <1>1 DEF Text!Init
<1>4. TextVersionsSeen /\ TextLocked /\ TextStaysChecked
  BY <1>3 DEF TextVersionsSeen, TextLocked, TextStaysChecked
<1> QED BY <1>2, <1>4 DEF TextInv

\* Nothing of a save changes, or whether its editor is still open.
LEMMA TextPageKeeps ==
  ASSUME TextInv, Text!TypeOK', UNCHANGED <<disk, lock, slipped>>,
         \A e \in Editors : /\ save'[e].step = save[e].step /\ save'[e].path = save[e].path
                            /\ save'[e].content = save[e].content
                            /\ save'[e].version = save[e].version
                            /\ seen[e] \subseteq seen'[e],
         \A e \in Editors : file'[e] # None => version'[e] \in seen'[e]
           /\ content'[e] \in Contents
  PROVE  TextInv'
<1>1. TextVersionsSeen'
  BY DEF TextInv, TextVersionsSeen
<1>2. TextLocked' /\ TextStaysChecked'
  BY DEF TextInv, TextLocked, TextStaysChecked
<1> QED BY <1>1, <1>2 DEF TextInv

LEMMA TextEditorKeeps ==
  ASSUME Text!Assumptions, TextInv, NEW e \in Editors,
         \/ \E f \in Files : Text!Ask(e, f) \/ Text!Opens(e, f)
         \/ \E c \in Contents : Text!Type(e, c)
         \/ Text!AskReload(e) \/ Text!Reloaded(e) \/ Text!Close(e)
  PROVE  TextInv'
<1> USE DEF TextInv, Text!TypeOK, Text!AnyText, Text!Assumptions
<1>1. ASSUME NEW f \in Files, Text!Ask(e, f) PROVE TextInv'
  <2>1. Text!TypeOK'
    BY <1>1 DEF Text!Ask
  <2> QED BY <1>1, <2>1, TextPageKeeps DEF Text!Ask, TextVersionsSeen
<1>2. ASSUME NEW f \in Files, Text!Opens(e, f) PROVE TextInv'
  <2>1. opening[e][f] \in Contents
    BY <1>2 DEF Text!Opens
  <2>2. Text!TypeOK'
    <3>1. /\ opening' \in [Editors -> [Files -> Text!AnyText]]
          /\ file' \in [Editors -> Files \cup {None}]
      BY <1>2 DEF Text!Opens
    <3>2. CASE file[e] = None
      <4>1. {content', version', original'} \subseteq [Editors -> Text!AnyText]
        <5>1. /\ content' = [content EXCEPT ![e] = opening[e][f]]
              /\ version' = [version EXCEPT ![e] = opening[e][f]]
              /\ original' = [original EXCEPT ![e] = opening[e][f]]
          BY <1>2, <3>2 DEF Text!Opens
        <5> QED BY <2>1, <5>1
      <4>2. seen' \in [Editors -> SUBSET Contents]
        BY <1>2, <2>1, <3>2 DEF Text!Opens
      <4> QED BY <1>2, <3>1, <4>1, <4>2 DEF Text!Opens
    <3>3. CASE file[e] # None
      BY <1>2, <3>1, <3>3 DEF Text!Opens
    <3> QED BY <3>2, <3>3
  <2>3. \A d \in Editors : /\ seen[d] \subseteq seen'[d]
                           /\ file'[d] # None => version'[d] \in seen'[d]
                                /\ content'[d] \in Contents
    BY <1>2, <2>1 DEF Text!Opens, TextVersionsSeen
  <2> QED BY <1>2, <2>2, <2>3, TextPageKeeps DEF Text!Opens
<1>3. ASSUME NEW c \in Contents, Text!Type(e, c) PROVE TextInv'
  <2>1. Text!TypeOK'
    BY <1>3 DEF Text!Type
  <2>2. \A d \in Editors : file'[d] # None => version'[d] \in seen'[d]
          /\ content'[d] \in Contents
    BY <1>3 DEF Text!Type, TextVersionsSeen
  <2> QED BY <1>3, <2>1, <2>2, TextPageKeeps DEF Text!Type
<1>4. CASE Text!AskReload(e)
  <2>1. Text!TypeOK'
    BY <1>4 DEF Text!AskReload
  <2> QED BY <1>4, <2>1, TextPageKeeps DEF Text!AskReload, TextVersionsSeen
<1>5. CASE Text!Reloaded(e)
  <2>1. reload[e] \in Contents
    BY <1>5 DEF Text!Reloaded
  <2>2. Text!TypeOK'
    BY <1>5, <2>1 DEF Text!Reloaded
  <2>3. \A d \in Editors : /\ seen[d] \subseteq seen'[d]
                           /\ file'[d] # None => version'[d] \in seen'[d]
                                /\ content'[d] \in Contents
    BY <1>5, <2>1 DEF Text!Reloaded, TextVersionsSeen
  <2> QED BY <1>5, <2>2, <2>3, TextPageKeeps DEF Text!Reloaded
<1>6. CASE Text!Close(e)
  <2>1. Text!TypeOK'
    <3>1. /\ {content', version', original', reload'} \subseteq [Editors -> Text!AnyText]
          /\ file' \in [Editors -> Files \cup {None}]
      BY <1>6 DEF Text!Close
    <3>2. save' \in [Editors -> TextRequest]
      <4>1. save' = [save EXCEPT ![e].here = FALSE] /\ save \in [Editors -> TextRequest]
        BY <1>6 DEF Text!Close, TextRequest, TextSteps
      <4> QED BY <4>1 DEF TextRequest
    <3> QED BY <1>6, <3>1, <3>2 DEF Text!Close, TextRequest, TextSteps
  <2>2. \A d \in Editors : /\ save'[d].step = save[d].step /\ save'[d].path = save[d].path
                           /\ save'[d].content = save[d].content
                           /\ save'[d].version = save[d].version
    BY <1>6 DEF Text!Close
  <2>3. \A d \in Editors : file'[d] # None => version'[d] \in seen'[d]
          /\ content'[d] \in Contents
    BY <1>6 DEF Text!Close, TextVersionsSeen
  <2> QED BY <1>6, <2>1, <2>2, <2>3, TextPageKeeps DEF Text!Close
<1> QED BY <1>1, <1>2, <1>3, <1>4, <1>5, <1>6

LEMMA TextStepped ==
  ASSUME Text!TypeOK, NEW e \in Editors, NEW phase \in TextSteps, Text!To(e, phase)
  PROVE  /\ save' \in [Editors -> TextRequest]
         /\ save'[e].step = phase /\ save'[e].path = save[e].path
         /\ save'[e].content = save[e].content /\ save'[e].version = save[e].version
         /\ \A d \in Editors : d # e => save'[d] = save[d]
BY DEF Text!TypeOK, Text!To, TextRequest, TextSteps

LEMMA TextSaveKeeps ==
  ASSUME Text!Assumptions, TextInv, NEW e \in Editors, Text!Save(e)
  PROVE  TextInv'
<1>1. file[e] \in Files /\ content[e] \in Contents /\ version[e] \in seen[e]
  BY DEF Text!Save, TextInv, Text!TypeOK, TextVersionsSeen
<1>2. /\ save' = [save EXCEPT ![e] = [step |-> "sent", path |-> file[e], content |-> content[e],
                                      version |-> version[e], here |-> TRUE]]
      /\ saves' = saves + 1 /\ saves < MaxSaves
      /\ UNCHANGED <<disk, lock, Text!page, slipped, written>>
  BY DEF Text!Save
<1>3. [step |-> "sent", path |-> file[e], content |-> content[e], version |-> version[e],
       here |-> TRUE] \in TextRequest
  BY <1>1 DEF TextInv, Text!TypeOK, TextRequest, TextSteps, Text!AnyText
<1>4. Text!TypeOK'
  <2>1. save' \in [Editors -> TextRequest]
    BY <1>2, <1>3 DEF TextInv, Text!TypeOK, TextRequest, TextSteps
  <2> QED BY <1>2, <2>1
             DEF TextInv, Text!TypeOK, Text!page, Text!Assumptions, TextRequest, TextSteps
<1>5. TextVersionsSeen' /\ TextLocked' /\ TextStaysChecked'
  BY <1>1, <1>2
     DEF TextInv, Text!TypeOK, TextVersionsSeen, TextLocked, TextStaysChecked, Text!page
<1> QED BY <1>4, <1>5 DEF TextInv

LEMMA TextLockKeeps ==
  ASSUME Text!Assumptions, TextInv, NEW e \in Editors, Text!Lock(e)
  PROVE  TextInv'
<1>1. /\ save[e].step = "sent" /\ lock[save[e].path] = None /\ save[e].path \in Files
      /\ lock' = [lock EXCEPT ![save[e].path] = e]
      /\ UNCHANGED <<disk, Text!page, slipped, written, saves>>
  BY DEF Text!Lock, TextInv, TextVersionsSeen
<1>2. /\ save' \in [Editors -> TextRequest]
      /\ save'[e].step = "locked" /\ save'[e].path = save[e].path
      /\ save'[e].content = save[e].content /\ save'[e].version = save[e].version
      /\ \A d \in Editors : d # e => save'[d] = save[d]
  BY TextStepped DEF Text!Lock, TextInv, TextSteps
<1>3. Text!TypeOK'
  BY <1>1, <1>2 DEF TextInv, Text!TypeOK, Text!page, TextRequest, TextSteps
<1>4. TextVersionsSeen' /\ TextStaysChecked'
  BY <1>1, <1>2 DEF TextInv, TextVersionsSeen, TextStaysChecked, Text!page
<1>5. TextLocked'
  <2>1. ASSUME NEW d \in Editors, d # e, save[d].step \in {"locked", "written", "checked"}
        PROVE  save[d].path # save[e].path
    BY <1>1, <2>1 DEF TextInv, TextLocked, Text!Assumptions
  <2> QED BY <1>1, <1>2, <2>1 DEF TextInv, Text!TypeOK, TextLocked, TextVersionsSeen
<1> QED BY <1>3, <1>4, <1>5 DEF TextInv

\* Two saves that hold a lock are of different files.
LEMMA TextApart ==
  ASSUME TextInv, NEW d \in Editors, NEW e \in Editors, d # e,
         save[d].step \in {"locked", "written", "checked"},
         save[e].step \in {"locked", "written", "checked"}
  PROVE  save[d].path # save[e].path
BY DEF TextInv, TextLocked

\* The lock of a save is given up, and what it writes is written.
LEMMA TextUnlocksKeep ==
  ASSUME Text!Assumptions, TextInv, NEW e \in Editors, NEW phase \in {"conflict", "saved"},
         Text!To(e, phase),
         save[e].step \in {"locked", "written", "checked"},
         lock' = [lock EXCEPT ![save[e].path] = None],
         disk' \in {disk, [disk EXCEPT ![save[e].path] = save[e].content]},
         slipped' \in {slipped, slipped \ {save[e].path}},
         UNCHANGED <<Text!page, written, saves>>
  PROVE  TextInv'
<1>1. /\ save' \in [Editors -> TextRequest]
      /\ save'[e].step = phase /\ save'[e].path = save[e].path
      /\ save'[e].content = save[e].content /\ save'[e].version = save[e].version
      /\ \A d \in Editors : d # e => save'[d] = save[d]
  BY TextStepped DEF TextInv, TextSteps
<1>2. save[e].path \in Files /\ save[e].content \in Contents
  BY DEF TextInv, TextVersionsSeen
<1>3. Text!TypeOK'
  BY <1>1, <1>2 DEF TextInv, Text!TypeOK, Text!page, TextRequest, TextSteps
<1>4. TextVersionsSeen'
  BY <1>1 DEF TextInv, TextVersionsSeen, Text!page
<1>5. ASSUME NEW d \in Editors, save'[d].step \in {"locked", "written", "checked"}
      PROVE  d # e /\ save[d].path \in Files /\ save[d].path # save[e].path
               /\ save'[d] = save[d]
  BY <1>1, <1>5, TextApart DEF TextInv, TextVersionsSeen
<1>6. TextLocked' /\ TextStaysChecked'
  <2>1. TextLocked'
    BY <1>5 DEF TextInv, Text!TypeOK, TextLocked
  <2>2. TextStaysChecked'
    BY <1>5 DEF TextInv, Text!TypeOK, TextStaysChecked
  <2> QED BY <2>1, <2>2
<1> QED BY <1>3, <1>4, <1>6 DEF TextInv

\* A check is passed.
LEMMA TextPassesKeep ==
  ASSUME Text!Assumptions, TextInv, NEW e \in Editors, NEW phase \in {"written", "checked"},
         Text!To(e, phase),
         save[e].step \in {"locked", "written"}, disk[save[e].path] = save[e].version,
         slipped' \in {slipped, slipped \ {save[e].path}},
         UNCHANGED <<disk, lock, Text!page, written, saves>>
  PROVE  TextInv'
<1>1. /\ save' \in [Editors -> TextRequest]
      /\ save'[e].step = phase /\ save'[e].path = save[e].path
      /\ save'[e].content = save[e].content /\ save'[e].version = save[e].version
      /\ \A d \in Editors : d # e => save'[d] = save[d]
  BY TextStepped DEF TextInv, TextSteps
<1>2. Text!TypeOK'
  BY <1>1 DEF TextInv, Text!TypeOK, Text!page, TextRequest, TextSteps
<1>3. TextVersionsSeen' /\ TextLocked'
  BY <1>1 DEF TextInv, TextVersionsSeen, TextLocked, Text!page
<1>4. TextStaysChecked'
  <2>1. ASSUME NEW d \in Editors, d # e, save[d].step = "checked"
        PROVE  save[d].path # save[e].path
    BY <2>1, TextApart
  <2> QED BY <1>1, <2>1 DEF TextInv, TextStaysChecked
<1> QED BY <1>2, <1>3, <1>4 DEF TextInv

LEMMA TextWritesKeep ==
  ASSUME Text!Assumptions, TextInv, NEW e \in Editors, Text!Check(e) \/ Text!Recheck(e)
           \/ Text!Rename(e)
  PROVE  TextInv'
<1>1. CASE Text!Check(e)
  BY <1>1, TextPassesKeep, TextUnlocksKeep DEF Text!Check, Text!Refuse
<1>2. CASE Text!Recheck(e)
  BY <1>2, TextPassesKeep, TextUnlocksKeep DEF Text!Recheck, Text!Refuse
<1>3. CASE Text!Rename(e)
  BY <1>3, TextUnlocksKeep DEF Text!Rename
<1> QED BY <1>1, <1>2, <1>3

LEMMA TextAnswersKeep ==
  ASSUME Text!Assumptions, TextInv, NEW e \in Editors, Text!SaveAnswered(e) \/ Text!Failed(e)
  PROVE  TextInv'
<1>1. /\ save[e].step \in {"saved", "conflict"} /\ save[e].content \in Contents
      /\ save' = [save EXCEPT ![e] = Text!NoSave]
      /\ UNCHANGED <<disk, lock, opening, file, content, reload, slipped, written, saves>>
  BY DEF Text!SaveAnswered, Text!Failed, TextInv, TextVersionsSeen, Text!page
<1>2. Text!NoSave \in TextRequest /\ Text!NoSave.step = "none"
  BY DEF Text!NoSave, TextRequest, TextSteps, Text!AnyText
<1>3. /\ \A d \in Editors : seen[d] \subseteq seen'[d]
      /\ seen' \in [Editors -> SUBSET Contents]
      /\ {version', original'} \subseteq [Editors -> Text!AnyText]
      /\ \A d \in Editors : version'[d] = version[d] \/ version'[d] \in seen'[d]
  <2>1. CASE Text!Failed(e)
    BY <2>1 DEF Text!Failed, Text!page, TextInv, Text!TypeOK
  <2>2. CASE Text!SaveAnswered(e)
    <3>1. seen' = [seen EXCEPT ![e] = @ \cup {save[e].content}]
      BY <2>2 DEF Text!SaveAnswered
    <3>2. /\ seen' \in [Editors -> SUBSET Contents]
          /\ \A d \in Editors : seen[d] \subseteq seen'[d]
      BY <1>1, <3>1 DEF TextInv, Text!TypeOK
    <3>3. CASE save[e].here
      <4>1. /\ version' = [version EXCEPT ![e] = save[e].content]
            /\ original' = [original EXCEPT ![e] = save[e].content]
        BY <2>2, <3>3 DEF Text!SaveAnswered
      <4> QED BY <1>1, <3>1, <3>2, <4>1 DEF TextInv, Text!TypeOK, Text!AnyText
    <3>4. CASE ~save[e].here
      BY <2>2, <3>2, <3>4 DEF Text!SaveAnswered, TextInv, Text!TypeOK
    <3> QED BY <3>3, <3>4
  <2> QED BY <2>1, <2>2
<1>4. save' \in [Editors -> TextRequest]
  BY <1>1, <1>2 DEF TextInv, Text!TypeOK, TextRequest, TextSteps
<1>5. Text!TypeOK'
  BY <1>1, <1>3, <1>4 DEF TextInv, Text!TypeOK, TextRequest, TextSteps
<1>6. \A d \in Editors : save'[d] = save[d] \/ save'[d].step = "none"
  BY <1>1, <1>2 DEF TextInv, Text!TypeOK
<1>7. TextVersionsSeen' /\ TextLocked' /\ TextStaysChecked'
  BY <1>1, <1>3, <1>6 DEF TextInv, TextVersionsSeen, TextLocked, TextStaysChecked
<1> QED BY <1>5, <1>7 DEF TextInv

LEMMA TextOutsideKeeps ==
  ASSUME Text!Assumptions, TextInv, NEW f \in Files, NEW c \in Contents, Text!Outside(f, c)
  PROVE  TextInv'
<1>1. /\ disk' = [disk EXCEPT ![f] = c] /\ slipped' = slipped \cup {f}
      /\ written < MaxOutside /\ written' = written + 1
      /\ UNCHANGED <<lock, Text!page, save, saves>>
  BY DEF Text!Outside
<1>2. Text!TypeOK'
  BY <1>1 DEF TextInv, Text!TypeOK, Text!page, Text!Assumptions
<1>3. TextVersionsSeen' /\ TextLocked'
  BY <1>1 DEF TextInv, TextVersionsSeen, TextLocked, Text!page
<1>4. TextStaysChecked'
  BY <1>1 DEF TextInv, Text!TypeOK, TextStaysChecked, TextVersionsSeen
<1> QED BY <1>2, <1>3, <1>4 DEF TextInv

LEMMA TextNextKeeps == ASSUME Text!Assumptions, TextInv, [Text!Next]_(Text!vars) PROVE TextInv'
<1>1. ASSUME NEW e \in Editors,
             \/ \E f \in Files : Text!Ask(e, f) \/ Text!Opens(e, f)
             \/ \E c \in Contents : Text!Type(e, c)
             \/ Text!AskReload(e) \/ Text!Reloaded(e) \/ Text!Close(e)
      PROVE  TextInv'
  BY <1>1, TextEditorKeeps
<1>2. ASSUME NEW e \in Editors,
             \/ Text!Save(e) \/ Text!Lock(e) \/ Text!Check(e) \/ Text!Recheck(e)
             \/ Text!Rename(e)
             \/ Text!SaveAnswered(e) \/ Text!Failed(e)
      PROVE  TextInv'
  BY <1>2, TextSaveKeeps, TextLockKeeps, TextWritesKeep, TextAnswersKeep
<1>3. ASSUME NEW f \in Files, NEW c \in Contents, Text!Outside(f, c) PROVE TextInv'
  BY <1>3, TextOutsideKeeps
<1>4. CASE UNCHANGED Text!vars
  BY <1>4 DEF Text!vars, TextInv, Text!TypeOK, TextVersionsSeen, TextLocked, TextStaysChecked
<1> QED BY <1>1, <1>2, <1>3, <1>4 DEF Text!Next

-----------------------------------------------------------------------------
(* The network rates: NetworkRates *)

\* The counters are what has gone over the interfaces since some boot.
RatesCountersAgree ==
  /\ now \in 0..MaxTime /\ boot \in 1..MaxBoots
  /\ counters \in [Rates!Ifaces -> Nat] /\ total \in [Rates!Ifaces -> Nat]
  /\ \A i \in Rates!Ifaces : counters[i] <= total[i] /\ total[i] <= now

RatesReadings == [source : {"none", "agent", "ssh"}, time : Nat, boot : Nat, error : BOOLEAN,
             has : SUBSET Rates!Ifaces, counters : [Rates!Ifaces -> Nat], at : Nat, epoch : Nat,
             total : [Rates!Ifaces -> Nat]]

\* Two readings of one boot differ by what went over the interfaces between them.
RatesSameBoot(p, m) ==
  p.epoch = m.epoch =>
    \A i \in Rates!Ifaces : m.counters[i] + p.total[i] = m.total[i] + p.counters[i]

\* A reading has been taken, and is of this boot or an earlier one.
RatesTaken(r) ==
  /\ r \in RatesReadings
  /\ r.source = "none" => r.has = {}
  /\ r.source = "agent" => r.time = r.at + Skew /\ r.boot = r.epoch
  /\ r.source = "ssh" => r.time = r.at /\ r.boot = 0
  /\ r.epoch <= boot
  /\ r.epoch = 0 => r.counters = r.total
  /\ r.epoch = boot =>
       \A i \in Rates!Ifaces : counters[i] + r.total[i] = total[i] + r.counters[i]

RatesViewAgrees ==
  /\ offered \subseteq Rates!Ifaces /\ charted \subseteq Rates!Ifaces
  /\ iface \in Rates!Ifaces \cup {None} /\ chosen \in BOOLEAN /\ sample.valid \in BOOLEAN

RatesInv ==
  /\ RatesCountersAgree /\ RatesTaken(cached) /\ RatesTaken(previous)
  /\ RatesSameBoot(previous, cached)
  /\ RatesViewAgrees /\ Rates!RatesAreReal

LEMMA RatesNoReadingTaken ==
  ASSUME Rates!Assumptions, RatesCountersAgree
  PROVE  RatesTaken(Rates!NoReading)
<1>1. Rates!NoReading \in RatesReadings
  BY DEF Rates!NoReading, RatesReadings
<1> QED BY <1>1 DEF RatesTaken, Rates!NoReading, RatesCountersAgree

LEMMA RatesInitHolds == ASSUME Rates!Assumptions, Rates!Init PROVE RatesInv
<1>1. RatesCountersAgree
  BY DEF Rates!Assumptions, Rates!Init, RatesCountersAgree
<1>2. RatesTaken(cached) /\ RatesTaken(previous)
  BY <1>1, RatesNoReadingTaken DEF Rates!Init
<1>3. RatesSameBoot(previous, cached)
  BY DEF Rates!Init, RatesSameBoot, Rates!NoReading
<1>4. RatesViewAgrees /\ Rates!RatesAreReal
  BY DEF Rates!Init, RatesViewAgrees, Rates!RatesAreReal, Rates!NoSample
<1> QED BY <1>1, <1>2, <1>3, <1>4 DEF RatesInv

\* What is read now is taken, and agrees with all that was taken before.
LEMMA RatesFreshTaken ==
  ASSUME Rates!Assumptions, RatesCountersAgree, NEW source \in {"agent", "ssh"},
         NEW has \in SUBSET Rates!Ifaces,
         NEW error \in BOOLEAN
  PROVE  /\ RatesTaken(Rates!Reading(source, has, error))
         /\ \A p : RatesTaken(p) => /\ RatesSameBoot(p, Rates!Reading(source, has, error))
                                    /\ RatesSameBoot(Rates!Reading(source, has, error), p)
<1> DEFINE m == Rates!Reading(source, has, error)
<1>1. /\ m.source = source /\ m.has = has /\ m.counters = counters /\ m.at = now
      /\ m.epoch = boot /\ m.total = total
      /\ m.time = (IF source = "agent" THEN now + Skew ELSE now)
      /\ m.boot = (IF source = "agent" THEN boot ELSE 0)
  BY DEF Rates!Reading
<1>2. m \in RatesReadings
  BY DEF Rates!Assumptions, RatesCountersAgree, Rates!Reading, RatesReadings
<1>3. RatesTaken(m)
  BY <1>1, <1>2 DEF RatesTaken, RatesCountersAgree
<1> HIDE DEF m
<1>4. ASSUME NEW p, RatesTaken(p) PROVE RatesSameBoot(p, m) /\ RatesSameBoot(m, p)
  BY <1>1, <1>4 DEF RatesTaken, RatesSameBoot, RatesCountersAgree, RatesReadings
<1> QED BY <1>3, <1>4 DEF m

\* A reading that was taken stays so while time passes.
LEMMA RatesTickKeepsTaken ==
  ASSUME Rates!Assumptions, RatesCountersAgree, Rates!Tick, NEW r, RatesTaken(r)
  PROVE  RatesTaken(r)'
<1>1. PICK traffic \in [Rates!Ifaces -> 0..1] :
        /\ total' = [i \in Rates!Ifaces |-> total[i] + traffic[i]]
        /\ \/ counters' = [i \in Rates!Ifaces |-> counters[i] + traffic[i]] /\ UNCHANGED boot
           \/ boot < MaxBoots /\ boot' = boot + 1 /\ counters' = traffic
  BY DEF Rates!Tick
<1>2. r.epoch \in Nat /\ boot \in Nat
  BY DEF RatesTaken, RatesReadings, RatesCountersAgree
<1>3. CASE boot' = boot + 1
  BY <1>2, <1>3 DEF RatesTaken
<1>4. CASE counters' = [i \in Rates!Ifaces |-> counters[i] + traffic[i]] /\ UNCHANGED boot
  <2>1. ASSUME r.epoch = boot, NEW i \in Rates!Ifaces
        PROVE  counters'[i] + r.total[i] = total'[i] + r.counters[i]
    <3>1. counters[i] + r.total[i] = total[i] + r.counters[i]
      BY <2>1 DEF RatesTaken
    <3>2. counters'[i] = counters[i] + traffic[i] /\ total'[i] = total[i] + traffic[i]
      BY <1>1, <1>4
    <3>3. /\ counters[i] \in Nat /\ total[i] \in Nat /\ traffic[i] \in Nat
          /\ r.total[i] \in Nat /\ r.counters[i] \in Nat
      BY DEF RatesCountersAgree, RatesTaken, RatesReadings
    <3> QED BY <3>1, <3>2, <3>3
  <2> QED BY <1>4, <2>1 DEF RatesTaken
<1> QED BY <1>1, <1>3, <1>4

LEMMA RatesRateIsReal ==
  ASSUME Rates!Assumptions, NEW p, NEW m, NEW i \in Rates!Ifaces, RatesTaken(p), RatesTaken(m),
         RatesSameBoot(p, m),
         Rates!Valid(p, m, i)
  PROVE  LET s == Rates!Point(p, m, i)
         IN \/ s.bytes = s.traffic /\ s.dt = s.elapsed
            \/ s.restarted /\ m.source = "ssh"
<1>1. /\ Rates!Point(p, m, i).bytes = m.counters[i] - p.counters[i]
      /\ Rates!Point(p, m, i).traffic = m.total[i] - p.total[i]
      /\ Rates!Point(p, m, i).dt = m.time - p.time /\ Rates!Point(p, m, i).elapsed = m.at - p.at
      /\ Rates!Point(p, m, i).restarted = (m.epoch # p.epoch)
  BY DEF Rates!Point
<1>2. /\ p \in RatesReadings /\ m \in RatesReadings /\ i \in p.has
      /\ p.source = m.source /\ p.boot = m.boot
  BY DEF RatesTaken, Rates!Valid
<1>3. p.source # "none"
  BY <1>2 DEF RatesTaken
<1>4. m.time - p.time = m.at - p.at
  BY <1>2, <1>3 DEF RatesTaken, RatesReadings, Rates!Assumptions
<1>5. p.epoch = m.epoch => m.counters[i] - p.counters[i] = m.total[i] - p.total[i]
  BY <1>2 DEF RatesSameBoot, RatesReadings
<1>6. p.source = "agent" => p.epoch = m.epoch
  BY <1>2 DEF RatesTaken
<1> QED BY <1>1, <1>2, <1>3, <1>4, <1>5, <1>6 DEF RatesReadings

LEMMA RatesTickKeeps == ASSUME Rates!Assumptions, RatesInv, Rates!Tick PROVE RatesInv'
<1>1. PICK traffic \in [Rates!Ifaces -> 0..1] :
        /\ total' = [i \in Rates!Ifaces |-> total[i] + traffic[i]]
        /\ \/ counters' = [i \in Rates!Ifaces |-> counters[i] + traffic[i]] /\ UNCHANGED boot
           \/ boot < MaxBoots /\ boot' = boot + 1 /\ counters' = traffic
  BY DEF Rates!Tick
<1>2. /\ now \in 0..MaxTime /\ now < MaxTime /\ now' = now + 1 /\ boot \in 1..MaxBoots
      /\ \A i \in Rates!Ifaces : /\ counters[i] \in Nat /\ total[i] \in Nat
                                 /\ traffic[i] \in 0..1
                                 /\ counters[i] <= total[i] /\ total[i] <= now
  BY DEF RatesInv, RatesCountersAgree, Rates!Tick
<1>3. now' \in 0..MaxTime /\ boot' \in 1..MaxBoots
  BY <1>1, <1>2 DEF Rates!Assumptions
<1>4. /\ counters' \in [Rates!Ifaces -> Nat] /\ total' \in [Rates!Ifaces -> Nat]
      /\ \A i \in Rates!Ifaces : counters'[i] <= total'[i] /\ total'[i] <= now'
  <2>1. CASE counters' = [i \in Rates!Ifaces |-> counters[i] + traffic[i]]
    BY <1>1, <1>2, <2>1
  <2>2. CASE counters' = traffic
    BY <1>1, <1>2, <2>2
  <2> QED BY <1>1, <2>1, <2>2
<1>5. UNCHANGED <<cached, offered, previous, iface, chosen, sample, charted>>
  BY DEF Rates!Tick
<1>6. RatesTaken(cached)' /\ RatesTaken(previous)'
  <2>1. (\A r : RatesTaken(r) => RatesTaken(r)')
    BY RatesTickKeepsTaken DEF RatesInv
  <2> QED BY <1>5, <2>1 DEF RatesInv, RatesTaken
<1> QED BY <1>3, <1>4, <1>5, <1>6
           DEF RatesInv, RatesCountersAgree, RatesViewAgrees, Rates!RatesAreReal, RatesSameBoot

LEMMA RatesReportKeeps == ASSUME Rates!Assumptions, RatesInv, Rates!Report PROVE RatesInv'
<1>1. /\ UNCHANGED <<Rates!host, offered, previous, iface, chosen, sample, charted>>
      /\ cached' = Rates!Reading("agent", Rates!Ifaces, FALSE)
  BY DEF Rates!Report
<1>2. RatesTaken(cached') /\ RatesSameBoot(previous, cached')
  BY <1>1, RatesFreshTaken DEF RatesInv
<1> QED BY <1>1, <1>2
           DEF RatesInv, RatesCountersAgree, RatesTaken, RatesSameBoot, RatesViewAgrees,
               Rates!RatesAreReal, Rates!host

LEMMA RatesPreferredTyped ==
  ASSUME Rates!Assumptions, NEW has \in SUBSET Rates!Ifaces
  PROVE  Rates!Preferred(has) \subseteq Rates!Ifaces
BY DEF Rates!Preferred, Rates!Ifaces

\* The page takes a reading that agrees with those before it.
LEMMA RatesShownKeeps ==
  ASSUME Rates!Assumptions, RatesInv, NEW m, Rates!Shown(m), RatesTaken(m),
         RatesSameBoot(previous, m),
         RatesSameBoot(m, cached)
  PROVE  RatesInv'
<1>1. UNCHANGED <<now, boot, counters, total, cached, chosen>> /\ offered' = m.has
  BY DEF Rates!Shown, Rates!host
<1>2. m.has \in SUBSET Rates!Ifaces
  BY DEF RatesTaken, RatesReadings
<1>3. RatesCountersAgree' /\ RatesTaken(cached)'
  BY <1>1 DEF RatesInv, RatesCountersAgree, RatesTaken
<1>4. CASE Rates!Repeats(m)
  <2>1. UNCHANGED <<previous, iface, sample, charted>>
    BY <1>4 DEF Rates!Shown
  <2> QED BY <1>1, <1>2, <1>3, <2>1
             DEF RatesInv, RatesTaken, RatesSameBoot, RatesViewAgrees, Rates!RatesAreReal
<1>5. CASE ~Rates!Repeats(m)
  <2>1. PICK i \in IF iface = None THEN Rates!Preferred(m.has) ELSE {iface} :
          /\ iface' = i
          /\ sample' = Rates!Point(previous, m, i) /\ charted' = charted \cup {i}
          /\ previous' = m
    BY <1>5 DEF Rates!Shown
  <2>2. i \in Rates!Ifaces
    BY <1>2, RatesPreferredTyped DEF RatesInv, RatesViewAgrees
  <2>3. charted \subseteq {i}
    <3>1. CASE iface = None
      BY <3>1 DEF RatesInv, RatesViewAgrees, Rates!RatesAreReal, Rates!Assumptions
    <3>2. CASE iface # None
      BY <2>1, <3>2 DEF RatesInv, Rates!RatesAreReal
    <3> QED BY <3>1, <3>2
  <2>4. RatesTaken(previous)' /\ RatesSameBoot(previous, cached)'
    BY <1>1, <2>1 DEF RatesTaken, RatesSameBoot
  <2>5. sample'.valid \in BOOLEAN /\ (sample'.valid => Rates!Valid(previous, m, i))
    BY <2>1 DEF Rates!Point, Rates!NoSample
  <2>6. RatesViewAgrees'
    BY <1>1, <1>2, <2>1, <2>2, <2>5 DEF RatesInv, RatesViewAgrees
  <2>7. Rates!RatesAreReal'
    <3>1. charted' \subseteq {iface'}
      BY <2>1, <2>3
    <3>2. ASSUME sample'.valid
          PROVE  \/ sample'.bytes = sample'.traffic /\ sample'.dt = sample'.elapsed
                 \/ sample'.restarted /\ previous'.source = "ssh"
      BY <2>1, <2>2, <2>5, <3>2, RatesRateIsReal DEF RatesInv
    <3> QED BY <3>1, <3>2 DEF Rates!RatesAreReal
  <2> QED BY <1>3, <2>4, <2>6, <2>7 DEF RatesInv
<1> QED BY <1>4, <1>5

LEMMA RatesReadingsKeep ==
  ASSUME Rates!Assumptions, RatesInv, Rates!FromAgent \/ Rates!OverSSH
  PROVE  RatesInv'
<1>1. CASE Rates!FromAgent
  <2>1. RatesTaken(cached) /\ RatesSameBoot(previous, cached) /\ RatesSameBoot(cached, cached)
    BY DEF RatesInv, RatesSameBoot, RatesTaken, RatesReadings
  <2> QED BY <1>1, <2>1, RatesShownKeeps DEF Rates!FromAgent
<1>2. CASE Rates!OverSSH
  <2>1. PICK has \in SUBSET Rates!Ifaces, error \in BOOLEAN : Rates!Shown(Rates!Reading("ssh",
                                                                                        has, error))
    BY <1>2 DEF Rates!OverSSH
  <2>2. /\ RatesTaken(Rates!Reading("ssh", has, error))
        /\ RatesSameBoot(previous, Rates!Reading("ssh", has, error))
        /\ RatesSameBoot(Rates!Reading("ssh", has, error), cached)
    BY RatesFreshTaken DEF RatesInv
  <2> QED BY <2>1, <2>2, RatesShownKeeps
<1> QED BY <1>1, <1>2

LEMMA RatesChooseKeeps ==
  ASSUME Rates!Assumptions, RatesInv, NEW i \in Rates!Ifaces, Rates!Choose(i)
  PROVE  RatesInv'
<1>1. /\ UNCHANGED <<Rates!host, cached, offered>> /\ previous' = Rates!NoReading
      /\ sample' = Rates!NoSample
      /\ charted' = {} /\ iface' = i /\ chosen' = TRUE
  BY DEF Rates!Choose
<1>2. RatesTaken(Rates!NoReading)
  BY RatesNoReadingTaken DEF RatesInv
<1>3. RatesSameBoot(previous, cached)'
  <2>1. cached \in RatesReadings /\ (cached.epoch = 0 => cached.counters = cached.total)
    BY DEF RatesInv, RatesTaken
  <2> QED BY <1>1, <2>1 DEF RatesSameBoot, Rates!NoReading, RatesReadings
<1>4. RatesViewAgrees' /\ Rates!RatesAreReal'
  BY <1>1 DEF RatesInv, RatesViewAgrees, Rates!RatesAreReal, Rates!NoSample
<1>5. RatesCountersAgree' /\ RatesTaken(cached)' /\ RatesTaken(previous)'
  BY <1>1, <1>2 DEF RatesInv, RatesCountersAgree, RatesTaken, Rates!host
<1> QED BY <1>3, <1>4, <1>5 DEF RatesInv

LEMMA RatesNextKeeps ==
  ASSUME Rates!Assumptions, RatesInv, [Rates!Next]_(Rates!vars)
  PROVE  RatesInv'
<1>1. CASE Rates!Tick
  BY <1>1, RatesTickKeeps
<1>2. CASE Rates!Report
  BY <1>2, RatesReportKeeps
<1>3. CASE Rates!FromAgent \/ Rates!OverSSH
  BY <1>3, RatesReadingsKeep
<1>4. CASE \E i \in Rates!Ifaces : Rates!Choose(i)
  BY <1>4, RatesChooseKeeps
<1>5. CASE UNCHANGED Rates!vars
  BY <1>5
     DEF Rates!vars, RatesInv, RatesCountersAgree, RatesTaken, RatesSameBoot, RatesViewAgrees,
         Rates!RatesAreReal
<1> QED BY <1>1, <1>2, <1>3, <1>4, <1>5 DEF Rates!Next

LEMMA RatesTyped == ASSUME Rates!Assumptions, RatesInv PROVE Rates!TypeOK
<1>1. /\ now \in 0..MaxTime /\ boot \in 1..MaxBoots /\ MaxTime \in Nat
      /\ counters \in [Rates!Ifaces -> Nat] /\ total \in [Rates!Ifaces -> Nat]
      /\ \A i \in Rates!Ifaces : counters[i] <= total[i] /\ total[i] <= now
  BY DEF RatesInv, RatesCountersAgree, Rates!Assumptions
<1>2. counters \in [Rates!Ifaces -> 0..MaxTime] /\ total \in [Rates!Ifaces -> 0..MaxTime]
  BY <1>1
<1>3. previous \in RatesReadings /\ cached \in RatesReadings
  BY DEF RatesInv, RatesTaken
<1> QED BY <1>1, <1>2, <1>3 DEF RatesInv, RatesViewAgrees, Rates!TypeOK, RatesReadings

-----------------------------------------------------------------------------
(* The theorems *)

\* What the page has read of a host, and what a job or a connection has loaded, carries a key
\* that the user has confirmed or none, whatever changes the record meanwhile (trust, connect,
\* runAgentJob).
THEOREM TrustInvariant == PageSpec => []TrustInv
<1>1. PageInit => TrustInv
  BY BrowserAssumption, TrustInitHolds DEF PageInit
<1>2. TrustInv /\ [PageNext]_pageVars => TrustInv'
  <2>1. [PageNext]_pageVars => [Trust!Next]_(Trust!vars)
    BY DEF PageNext, pageVars, trustVars, Trust!vars
  <2> QED BY <2>1, BrowserAssumption, TrustNextKeeps
<1> QED BY <1>1, <1>2, PTL DEF PageSpec

\* What every operation, transfer and question of the page of files names was listed to the user
\* and asked about before (Files: load, op, upload).
THEOREM PaneInvariant == PageSpec => []PaneInv
<1>1. PageInit => PaneInv
  BY BrowserAssumption, PaneInitHolds DEF PageInit
<1>2. PaneInv /\ [PageNext]_pageVars => PaneInv'
  <2>1. [PageNext]_pageVars => [Pane!Next]_(Pane!vars)
    BY DEF PageNext, pageVars, paneVars, Pane!vars
  <2> QED BY <2>1, BrowserAssumption, PaneNextKeeps
<1> QED BY <1>1, <1>2, PTL DEF PageSpec

\* The plan that is shown, the dialog that is open and the call under way belong to the task
\* they were begun for (AIPage: load, execute, remove).
THEOREM PlansInvariant == PageSpec => []PlansInv
<1>1. PageInit => PlansInv
  BY BrowserAssumption, PlansInitHolds DEF PageInit
<1>2. PlansInv /\ [PageNext]_pageVars => PlansInv'
  <2>1. [PageNext]_pageVars => [Plans!Next]_(Plans!vars)
    BY DEF PageNext, pageVars, plansVars, Plans!vars
  <2> QED BY <2>1, BrowserAssumption, PlansNextKeeps
<1> QED BY <1>1, <1>2, PTL DEF PageSpec

\* No terminal has got a line that the user was not asked about (Workspace: paste, insert).
THEOREM TerminalsInvariant == PageSpec => []TerminalsInv
<1>1. PageInit => TerminalsInv
  BY BrowserAssumption, TerminalsInitHolds DEF PageInit
<1>2. TerminalsInv /\ [PageNext]_pageVars => TerminalsInv'
  <2>1. [PageNext]_pageVars => [Terminals!Next]_(Terminals!vars)
    BY DEF PageNext, pageVars, terminalsVars, Terminals!vars
  <2> QED BY <2>1, BrowserAssumption, TerminalsNextKeeps
<1> QED BY <1>1, <1>2, PTL DEF PageSpec

\* However the page goes on to another directory, task, host or terminal while questions wait
\* and answers are late, and whoever changes the record of a host meanwhile: what is deleted,
\* moved, replaced, executed or typed into a shell is what the user was asked about, and a
\* credential or an agent goes to the machine whose key was confirmed (Files, AIPage, Workspace,
\* trust, connect, runAgentJob).
THEOREM WhatWasConfirmed == PageSpec => []OnlyWhatWasConfirmed
<1>1. TrustInv /\ PaneInv /\ PlansInv /\ TerminalsInv => OnlyWhatWasConfirmed
  BY DEF TrustInv, PaneInv, PlansInv, TerminalsInv, OnlyWhatWasConfirmed
<1> QED BY <1>1, TrustInvariant, PaneInvariant, PlansInvariant, TerminalsInvariant, PTL

\* The steps of a save that is under way agree with what the server has of the host, and no
\* click makes a second one (HostEditor: submit).
THEOREM FormInvariant == PageSpec => []FormInv
<1>1. PageInit => FormInv
  BY BrowserAssumption, FormInitHolds DEF PageInit
<1>2. FormInv /\ [PageNext]_pageVars => FormInv'
  <2>1. [PageNext]_pageVars => [Form!Next]_(Form!vars)
    BY DEF PageNext, pageVars, formVars, Form!vars
  <2> QED BY <2>1, BrowserAssumption, FormNextKeeps
<1> QED BY <1>1, <1>2, PTL DEF PageSpec

\* The key on the server is the one saved last, unless two saves overlapped, and the form
\* knows of it (SettingsPanel, aiSettingsSave).
THEOREM SettingsInvariant == PageSpec => []SettingsInv
<1>1. PageInit => SettingsInv
  BY BrowserAssumption, SettingsInitHolds DEF PageInit
<1>2. SettingsInv /\ [PageNext]_pageVars => SettingsInv'
  <2>1. [PageNext]_pageVars => [Settings!Next]_(Settings!vars)
    BY DEF PageNext, pageVars, settingsVars, Settings!vars
  <2> QED BY <2>1, BrowserAssumption, SettingsNextKeeps
<1> QED BY <1>1, <1>2, PTL DEF PageSpec

\* Every variable of the page of monitoring keeps its type, and its forms are filled once.
THEOREM MonitorInvariant == PageSpec => []MonitorInv
<1>1. PageInit => MonitorInv
  BY BrowserAssumption, MonitorInitHolds DEF PageInit
<1>2. MonitorInv /\ [PageNext]_pageVars => MonitorInv'
  <2>1. [PageNext]_pageVars => [Monitor!Next]_(Monitor!vars)
    BY DEF PageNext, pageVars, monitorVars, Monitor!vars
  <2> QED BY <2>1, BrowserAssumption, MonitorNextKeeps
<1> QED BY <1>1, <1>2, PTL DEF PageSpec

\* Locks, versions and checks of all saves under way agree (writeText, TextEditor).
THEOREM TextInvariant == PageSpec => []TextInv
<1>1. PageInit => TextInv
  BY BrowserAssumption, TextInitHolds DEF PageInit
<1>2. TextInv /\ [PageNext]_pageVars => TextInv'
  <2>1. [PageNext]_pageVars => [Text!Next]_(Text!vars)
    BY DEF PageNext, pageVars, textVars, Text!vars
  <2> QED BY <2>1, BrowserAssumption, TextNextKeeps
<1> QED BY <1>1, <1>2, PTL DEF PageSpec

\* Every reading the page keeps was taken, of this boot or an earlier one, and two readings
\* of one boot differ by what went over the interfaces between them.
THEOREM RatesInvariant == PageSpec => []RatesInv
<1>1. PageInit => RatesInv
  BY BrowserAssumption, RatesInitHolds DEF PageInit
<1>2. RatesInv /\ [PageNext]_pageVars => RatesInv'
  <2>1. [PageNext]_pageVars => [Rates!Next]_(Rates!vars)
    BY DEF PageNext, pageVars, ratesVars, Rates!vars
  <2> QED BY <2>1, BrowserAssumption, RatesNextKeeps
<1> QED BY <1>1, <1>2, PTL DEF PageSpec

\* What the shell keeps belongs to the session in which it was asked for (App).
THEOREM ShellInvariant == PageSpec => []IInv
<1>1. PageInit => IInv
  BY BrowserAssumption, InitHolds DEF PageInit
<1>2. IInv /\ [PageNext]_pageVars => IInv'
  <2>1. [PageNext]_pageVars => [Next]_vars
    BY DEF PageNext, pageVars
  <2> QED BY <2>1, BrowserAssumption, NextKeeps
<1> QED BY <1>1, <1>2, PTL DEF PageSpec

\* Every variable of every part of the page keeps its type, for any accounts, hosts, files,
\* tasks, terminals and answers.
THEOREM TypesHold == PageSpec => []TypesOK
<1>1. IInv /\ FormInv /\ SettingsInv /\ MonitorInv /\ TrustInv /\ TextInv /\ PaneInv /\ PlansInv
        /\ TerminalsInv /\ RatesInv => TypesOK
  BY BrowserAssumption, FormInvTyped, RatesTyped
     DEF IInv, SettingsInv, MonitorInv, TrustInv, TrustTypes, TextInv, PaneInv, PlansInv,
         TerminalsInv, TypesOK
<1> QED BY <1>1, ShellInvariant, FormInvariant, SettingsInvariant, MonitorInvariant,
           TrustInvariant, TextInvariant, PaneInvariant, PlansInvariant, TerminalsInvariant,
           RatesInvariant, PTL

\* However the requests of the form end, one host is made; and the server keeps the key of the
\* AI service that was saved last (HostEditor: submit; SettingsPanel, aiSettingsSave).
THEOREM FormsAreSaved == PageSpec => []FormsSave
<1>1. FormInv => Form!SavedOnce
  BY BrowserAssumption, FormInvSaves
<1>2. SettingsInv => Settings!KeyKept
  BY BrowserAssumption, SettingsInvKeeps
<1>3. Form!SavedOnce /\ Settings!KeyKept => FormsSave
  BY DEF FormsSave
<1> QED BY <1>1, <1>2, <1>3, FormInvariant, SettingsInvariant, PTL

\* No read of the page takes away what the user types, however many reads and writes
\* overlap and in whatever order they are answered (MonitorPage: refresh, action).
THEOREM EditsAreKept == PageSpec => KeepsEdits
<1> DEFINE Kept == ready /\ edits' = edits =>
                     /\ form' = form \/ write.kind = "pause"
                     /\ alerts' = alerts \/ write.kind = "alerts"
<1>1. MonitorInv /\ [PageNext]_pageVars => [Kept]_(Monitor!vars)
  <2>1. [PageNext]_pageVars => [Monitor!Next]_(Monitor!vars)
    BY DEF PageNext, pageVars, monitorVars, Monitor!vars
  <2> QED BY <2>1, BrowserAssumption, MonitorStep
<1> HIDE DEF Kept
<1>2. PageSpec => [][Kept]_(Monitor!vars)
  BY <1>1, MonitorInvariant, PTL DEF PageSpec
<1> QED BY <1>2 DEF KeepsEdits, Monitor!KeepsEdits, Kept

\* However many editors save, reload and open files at the same time: a save replaces a text
\* its editor has seen, or what another program wrote after the last check (writeText,
\* TextEditor).
THEOREM SavesWhatWasSeen == PageSpec => SavesOverSeen
<1> DEFINE Over == \A e \in Editors, f \in Files :
                     save[e].step = "checked" /\ save'[e].step = "saved" /\ save[e].path = f
                       => disk[f] \in seen[e] \/ f \in slipped
<1>1. TextInv => Over
  BY DEF TextInv, TextVersionsSeen, TextStaysChecked
<1>2. [PageNext]_pageVars => [Text!Next]_(Text!vars)
  BY DEF PageNext, pageVars, textVars, Text!vars
<1> HIDE DEF Over
<1>3. PageSpec => [][Over]_(Text!vars)
  BY <1>1, <1>2, TextInvariant, PTL DEF PageSpec
<1> QED BY <1>3 DEF SavesOverSeen, Text!SavesOverSeen, Over

\* A rate is what went over the selected interface between two readings, however clocks
\* differ, readings get lost, repeat or alternate and the host restarts; only a restart
\* between two readings over SSH can go unseen (Workspace: the readings' handler).
THEOREM RatesHold == PageSpec => []RatesAreReal
<1>1. RatesInv => RatesAreReal
  BY DEF RatesInv, RatesAreReal
<1> QED BY <1>1, RatesInvariant, PTL
====
