---- MODULE ReportPipeline ----
(***************************************************************************)
(* A sample's way from the agent's collector to the traffic totals of its  *)
(* host: the queue in the agent's memory and its copy on disk, the calls   *)
(* that carry the head of the queue and may be lost, answered too late or  *)
(* carried out after the agent gave up, the rows of metric_samples that    *)
(* recognise a retransmission until they are purged, and the derivation of *)
(* traffic from the counters of consecutive samples.                       *)
(*                                                                         *)
(* Samples are numbered in the order they are taken, which is the order of *)
(* SampledAt; the number stands for (session, sequence).  One interface    *)
(* stands for all, and one clock for the agent's and the server's.  The    *)
(* credential is good throughout (AgentEnrollment models the rest).        *)
(***************************************************************************)
EXTENDS Naturals, Sequences, SequencesExt, FiniteSets, Selections

CONSTANTS
  Capacity,     \* MaxBufferedSamples
  Keep,         \* age at which the agent stops sending a sample: 59 minutes
  Window,       \* age at which Sample.Validate refuses it: an hour
  Retention,    \* age of a metric_samples row that maintenance deletes: two hours
  Fresh,        \* age up to which a sample makes the host current
  MaxSamples,   \* bounds of the model: samples,
  MaxTime,      \* ticks of the clock,
  MaxBytes,     \* bytes moved between two samples,
  MaxResets,    \* times the counter starts again,
  MaxStarts,    \* starts of the agent
  MaxToggles    \* times collection is paused or resumed

Assumptions ==
  /\ Capacity \in Nat \ {0}
  /\ Fresh \in Nat /\ Keep \in Nat /\ Window \in Nat /\ Retention \in Nat
  /\ Fresh <= Keep /\ Keep < Window /\ Window < Retention
  /\ MaxSamples \in Nat /\ MaxTime \in Nat /\ MaxBytes \in Nat /\ MaxResets \in Nat
  /\ MaxStarts \in Nat /\ MaxToggles \in Nat

VARIABLES
  clock,
  (* the host's interface *)
  counter,    \* RxBytes
  identity,   \* boot_id and interface index: what deriveMetrics compares
  resets,     \* times the counter has started again (history)
  moved,      \* bytes really moved (history)
  (* the agent *)
  samples,    \* what was sampled, in order
  up,         \* the process runs
  starts,
  paused,     \* settings.Paused as the process knows it
  queue,      \* Client.queue: numbers of samples
  buffer,     \* config.json.buffer: the queue as last persisted
  sending,    \* the call the agent waits for: {}, or {n} with n sent, {0} without a sample
  answer,     \* its answer, on the way: "none", "running" or "paused"
  late,       \* numbers in calls that the agent gave up and the server may still get
  (* the server *)
  setting,    \* Settings.Paused of the binding
  toggles,
  rows,       \* metric_samples: number -> received_at
  latest,     \* number of the sample in agent_bindings.latest, 0 for none
  current,    \* number of the last sample that set last_current, 0 for none
  traffic,    \* monitor_traffic: the host's total
  (* history *)
  first,      \* the first sample that became latest
  recorded,   \* how often the rollups of a second were given a sample
  excused     \* samples given up for lack of room or because of a pause

hostVars   == <<counter, identity, resets, moved>>
agentVars  == <<samples, up, starts, paused, queue, buffer>>
callVars   == <<sending, answer, late>>
serverVars == <<setting, toggles, rows, latest, current, traffic, first, recorded>>
vars == <<clock, hostVars, agentVars, callVars, serverVars, excused>>

Numbers == 1..MaxSamples
Taken   == 1..Len(samples)
(* second: the number of the first sample taken in the same second of SampledAt. *)
Sample  == [at : 0..MaxTime, second : Numbers, counter : Nat, identity : 0..MaxResets,
            resets : 0..MaxResets, moved : Nat]

TypeOK ==
  /\ clock \in 0..MaxTime
  /\ counter \in Nat /\ moved \in Nat /\ identity \in 0..MaxResets /\ resets \in 0..MaxResets
  /\ samples \in Seq(Sample) /\ Len(samples) <= MaxSamples
  /\ up \in BOOLEAN /\ paused \in BOOLEAN /\ setting \in BOOLEAN /\ starts \in 0..MaxStarts
  /\ toggles \in 0..MaxToggles
  /\ queue \in Seq(Taken) /\ Len(queue) <= Capacity
  /\ buffer \in Seq(Taken) /\ Len(buffer) <= Capacity
  /\ sending \in {{}, {0}} \cup {{n} : n \in Taken} /\ answer \in {"none", "running", "paused"}
  /\ late \subseteq Taken
  /\ DOMAIN rows \subseteq Taken /\ \A n \in DOMAIN rows : rows[n] \in 0..MaxTime
  /\ latest \in Taken \cup {0} /\ current \in Taken \cup {0} /\ first \in Taken \cup {0}
  /\ traffic \in Nat
  /\ recorded \in [Numbers -> Nat]
  /\ excused \subseteq Taken

Init ==
  /\ clock = 0 /\ counter = 0 /\ moved = 0 /\ identity = 0 /\ resets = 0
  /\ samples = <<>> /\ up = FALSE /\ starts = 0 /\ paused = FALSE
  /\ queue = <<>> /\ buffer = <<>> /\ sending = {} /\ answer = "none" /\ late = {}
  /\ setting = FALSE /\ toggles = 0 /\ rows = <<>> /\ latest = 0 /\ current = 0 /\ traffic = 0
  /\ first = 0 /\ recorded = [n \in Numbers |-> 0] /\ excused = {}

Age(n) == clock - samples[n].at
Older(age) == {n \in Taken : Age(n) > age}
(* A queue without its oldest entries, as many as are over Capacity. *)
Newest(q) == IF Len(q) > Capacity THEN SubSeq(q, Len(q) - Capacity + 1, Len(q)) ELSE q

-----------------------------------------------------------------------------
(* The surroundings. *)

Tick ==
  /\ clock < MaxTime
  /\ clock' = clock + 1
  /\ UNCHANGED <<hostVars, agentVars, callVars, serverVars, excused>>

(* The counter starts again: the host reboots (a new boot_id, and the agent  *)
(* dies with it), the interface is made anew (a new index), or its driver    *)
(* clears the counter and nothing tells.                                     *)
Reset(kind) ==
  /\ resets < MaxResets
  /\ counter' = 0 /\ resets' = resets + 1
  /\ identity' = IF kind = "driver" THEN identity ELSE identity + 1
  /\ IF kind = "boot" /\ up
       THEN /\ up' = FALSE /\ queue' = <<>> /\ sending' = {} /\ answer' = "none"
            /\ late' = late \cup (sending \ {0})
            /\ UNCHANGED <<samples, starts, paused, buffer>>
       ELSE UNCHANGED <<agentVars, callVars>>
  /\ UNCHANGED <<clock, moved, serverVars, excused>>

(* agentEnable of an enabled binding: the user pauses or resumes collection. *)
Configure ==
  /\ toggles < MaxToggles
  /\ setting' = ~setting /\ toggles' = toggles + 1
  /\ UNCHANGED <<clock, hostVars, agentVars, callVars, rows, latest, current, traffic, first,
                 recorded, excused>>

-----------------------------------------------------------------------------
(* The agent. *)

(* Run, up to its loop: an empty report learns whether to pause, unless it   *)
(* fails, which leaves the default settings; then restoreQueue.              *)
Start(reached) ==
  /\ ~up /\ starts < MaxStarts
  /\ up' = TRUE /\ starts' = starts + 1
  /\ paused' = (reached /\ setting)
  /\ queue' = IF paused' THEN <<>>
              ELSE Newest(Without(buffer, Older(Window)))
  /\ excused' = IF paused' THEN excused \cup ToSet(buffer) ELSE excused
  /\ UNCHANGED <<clock, hostVars, samples, buffer, callVars, serverVars>>

(* The process ends at any point; a call it had made may still arrive. *)
Crash ==
  /\ up
  /\ up' = FALSE /\ queue' = <<>> /\ sending' = {} /\ answer' = "none"
  /\ late' = late \cup (sending \ {0})
  /\ UNCHANGED <<clock, hostVars, samples, starts, paused, buffer, serverVars, excused>>

(* collect: a sample, some bytes after the one before, perhaps in the same   *)
(* second, goes to the end of the queue; the oldest makes room for it; the   *)
(* queue is persisted.                                                       *)
Collect(bytes, same) ==
  LET n == Len(samples) + 1
      full == Append(queue, n)
  IN /\ up /\ ~paused /\ n <= MaxSamples
     /\ same => n > 1 /\ samples[n - 1].at = clock
     /\ counter' = counter + bytes /\ moved' = moved + bytes
     /\ samples' = Append(samples,
          [at |-> clock, second |-> IF same THEN samples[n - 1].second ELSE n,
           counter |-> counter', identity |-> identity, resets |-> resets, moved |-> moved'])
     /\ queue' = Newest(full) /\ buffer' = queue'
     /\ excused' = excused \cup (ToSet(full) \ ToSet(queue'))
     /\ UNCHANGED <<clock, identity, resets, up, starts, paused, callVars, serverVars>>

(* collect when the pause arrived while it sampled: only the persisting. *)
CollectPaused ==
  /\ up /\ paused /\ buffer # queue
  /\ buffer' = queue
  /\ UNCHANGED <<clock, hostVars, samples, up, starts, paused, queue, callVars, serverVars,
                 excused>>

(* The head of the loop of Run: samples too old to be worth sending go, and  *)
(* the oldest of the others is sent, or an empty report.                     *)
Send ==
  LET kept == Without(queue, Older(Keep))
  IN /\ up /\ sending = {}
     /\ queue' = kept
     /\ sending' = IF kept # <<>> /\ ~paused THEN {Head(kept)} ELSE {0}
     /\ UNCHANGED <<clock, hostVars, samples, up, starts, paused, buffer, answer, late,
                    serverVars, excused>>

(* send falls back: the stream gave no answer, and the report goes out again *)
(* by POST while the first copy may still arrive.                            *)
Fallback ==
  /\ sending # {} /\ sending # {0} /\ ~(sending \subseteq late)
  /\ late' = late \cup sending /\ answer' = "none"
  /\ UNCHANGED <<clock, hostVars, agentVars, sending, serverVars, excused>>

(* No answer, or an error: the sample stays in the queue for the next round. *)
GiveUp ==
  /\ sending # {}
  /\ sending' = {} /\ answer' = "none"
  /\ late' = late \cup (sending \ {0})
  /\ UNCHANGED <<clock, hostVars, agentVars, serverVars, excused>>

(* A call that was given up never arrives. *)
Lose(n) ==
  /\ n \in late
  /\ late' = late \ {n}
  /\ UNCHANGED <<clock, hostVars, agentVars, sending, answer, serverVars, excused>>

(* apply and what Run does next with an answer: a pause empties the queue,   *)
(* the sample that was sent is taken out by its identity, wherever it is,    *)
(* and the queue is persisted if a sample was sent.                          *)
Receive ==
  LET left == Without(IF answer = "paused" THEN <<>> ELSE queue, sending)
  IN /\ answer # "none"
     /\ paused' = (answer = "paused")
     /\ queue' = left
     /\ buffer' = IF sending # {0} THEN left ELSE buffer
     /\ excused' = IF answer = "paused"
                     THEN excused \cup ToSet(queue) \cup (IF sending # {0} THEN ToSet(buffer) ELSE {})
                     ELSE excused
     /\ sending' = {} /\ answer' = "none"
     /\ UNCHANGED <<clock, hostVars, samples, up, starts, late, serverVars>>

-----------------------------------------------------------------------------
(* The server. *)

Validate(n) == Age(n) <= Window
Known(n) == \E m \in DOMAIN rows : samples[m].second = samples[n].second
Ordered(n) == latest = 0 \/ n > latest

(* mutant of Gain: without a previous sample the whole counter is a gain *)
GainFromZero(n) ==
  IF latest = 0 THEN samples[n].counter
  ELSE IF /\ n > latest /\ samples[n].identity = samples[latest].identity
          /\ samples[n].counter >= samples[latest].counter
       THEN samples[n].counter - samples[latest].counter
       ELSE 0

(* deriveMetrics: what the counter gained since the latest sample, nothing   *)
(* when it has another identity or has gone down.                            *)
Gain(n) ==
  IF /\ latest # 0 /\ n > latest
     /\ samples[n].identity = samples[latest].identity
     /\ samples[n].counter >= samples[latest].counter
  THEN samples[n].counter - samples[latest].counter
  ELSE 0

(* ingestAgent of a sample: a row that is there already, of this sample or   *)
(* of its second, makes it a retransmission, accepted and otherwise ignored. *)
Ingest(n) ==
  /\ Validate(n)
  /\ IF setting \/ Known(n)
       THEN UNCHANGED <<rows, latest, current, traffic, first, recorded>>
       ELSE /\ rows' = [m \in DOMAIN rows \cup {n} |-> IF m = n THEN clock ELSE rows[m]]
            /\ recorded' = [recorded EXCEPT ![samples[n].second] = @ + 1]
            /\ traffic' = traffic + Gain(n)
            /\ latest' = IF Ordered(n) THEN n ELSE latest
            /\ current' = IF Ordered(n) /\ Age(n) <= Fresh THEN n ELSE current
            /\ first' = IF first = 0 THEN n ELSE first

(* mutant of Report: a retransmission is an error *)
ReportRefusesKnown ==
  /\ sending # {} /\ answer = "none" /\ \A n \in sending \ {0} : ~Known(n)
  /\ IF sending = {0} THEN UNCHANGED <<rows, latest, current, traffic, first, recorded>>
                      ELSE \E n \in sending : Ingest(n)
  /\ answer' = IF setting THEN "paused" ELSE "running"
  /\ UNCHANGED <<clock, hostVars, agentVars, sending, late, setting, toggles, excused>>

(* The call the agent waits for is carried out; an empty one changes nothing.*)
Report ==
  /\ sending # {} /\ answer = "none"
  /\ IF sending = {0} THEN UNCHANGED <<rows, latest, current, traffic, first, recorded>>
                      ELSE \E n \in sending : Ingest(n)
  /\ answer' = IF setting THEN "paused" ELSE "running"
  /\ UNCHANGED <<clock, hostVars, agentVars, sending, late, setting, toggles, excused>>

(* A call the agent no longer waits for is carried out all the same. *)
ReportLate(n) ==
  /\ n \in late /\ Ingest(n)
  /\ late' = late \ {n}
  /\ UNCHANGED <<clock, hostVars, agentVars, sending, answer, setting, toggles, excused>>

(* mutant of Purge: a row goes at the age at which the agent stops sending *)
PurgeEarly ==
  LET old == {n \in DOMAIN rows : clock - rows[n] > Keep}
  IN /\ old # {}
     /\ rows' = [n \in DOMAIN rows \ old |-> rows[n]]
     /\ UNCHANGED <<clock, hostVars, agentVars, callVars, setting, toggles, latest, current,
                    traffic, first, recorded, excused>>

(* maintain deletes the rows received longer ago than Retention. *)
Purge ==
  LET old == {n \in DOMAIN rows : clock - rows[n] > Retention}
  IN /\ old # {}
     /\ rows' = [n \in DOMAIN rows \ old |-> rows[n]]
     /\ UNCHANGED <<clock, hostVars, agentVars, callVars, setting, toggles, latest, current,
                    traffic, first, recorded, excused>>

Next ==
  \/ Tick
  \/ \E kind \in {"boot", "interface", "driver"} : Reset(kind)
  \/ Configure
  \/ \E reached \in BOOLEAN : Start(reached)
  \/ Crash
  \/ \E bytes \in 0..MaxBytes, same \in BOOLEAN : Collect(bytes, same)
  \/ CollectPaused
  \/ Send \/ Fallback \/ GiveUp \/ Receive
  \/ \E n \in Numbers : Lose(n) \/ ReportLate(n)
  \/ Report
  \/ Purge

Spec == Init /\ [][Next]_vars

-----------------------------------------------------------------------------
(* Properties. *)

(* A sample is counted once in the rollups and the traffic however often it  *)
(* is sent and however late a copy arrives: the rows outlive every copy that *)
(* Validate would still let in (the UNIQUE constraints of metric_samples,    *)
(* maintain's two hours against Validate's one).                             *)
CountedOnce == \A s \in Numbers : recorded[s] <= 1

(* The traffic total never exceeds what the interface moved between the      *)
(* first and the latest sample, and is exactly that while the counter has    *)
(* not started again, whatever samples between them were lost, repeated or   *)
(* came out of order (deriveMetrics and persistTraffic).                     *)
TrafficCounted ==
  latest # 0 =>
    LET real == samples[latest].moved - samples[first].moved
    IN /\ traffic <= real
       /\ samples[first].resets = samples[latest].resets => traffic = real

(* A sample leaves the agent only when the server has recorded its second,   *)
(* when it is too old to send, when the buffer is full or when collection is *)
(* paused: not with a lost answer, a late one or a crash (Client.collect,    *)
(* Run, restoreQueue and persistQueueLocked).                                *)
SampleKept ==
  \A n \in Taken :
    \/ n \in ToSet(IF up THEN queue ELSE buffer)
    \/ recorded[samples[n].second] > 0
    \/ Age(n) > Keep
    \/ n \in excused

-----------------------------------------------------------------------------
(* systemd starts the agent again, Run's loop goes on sending and every call *)
(* ends (send's and post's time limits); calls are not lost for ever.        *)
Fairness ==
  /\ WF_vars(starts > 0 /\ \E reached \in BOOLEAN : Start(reached))
  /\ WF_vars(Send) /\ WF_vars(GiveUp)
  /\ SF_vars(Report)
  /\ SF_vars(Receive)

(* Once no more samples are taken the queue runs empty: nothing at its head  *)
(* blocks the rest for ever (Run, from Send to Receive).                     *)
QueueDrains == <>[](up => queue = <<>>)
====
