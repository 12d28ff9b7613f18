---- MODULE NetworkRates ----
(***************************************************************************)
(* The network rates of a workspace (Workspace.tsx): readings of byte      *)
(* counters come over a socket, each from the agent of the host, stamped   *)
(* by the host's clock, or over SSH, stamped by the server's; the page     *)
(* chooses an interface and divides the difference of two readings by the  *)
(* time between them.  Readings are lost, repeated and incomplete; the     *)
(* host restarts, and its counters with it.                                *)
(***************************************************************************)
EXTENDS Naturals

CONSTANTS
  Physical, Virtual, Lo,   \* the interfaces of the host
  None,
  Skew,                    \* of the clock of the host
  Gap,                     \* readings further apart make no rate (10 s)
  MaxTime, MaxBoots

Ifaces == Physical \cup Virtual \cup {Lo}

VARIABLES
  now, boot, counters,     \* of the host
  total,                   \* all bytes ever, over all boots
  cached,                  \* the last sample of the agent
  shown,                   \* metrics: whether the last reading of the page had interfaces
  previous, iface,
  chosen,                  \* the user has chosen the interface
  sample,                  \* the last point of the chart, and what really happened
  charted                  \* the interfaces of the points of the chart

vars == <<now, boot, counters, total, cached, shown, previous, iface, chosen, sample, charted>>
host == <<now, boot, counters, total>>

Assumptions ==
  /\ {Lo} \cap (Physical \cup Virtual) = {} /\ Physical \cap Virtual = {}
  /\ None \notin Ifaces /\ Skew \in Nat /\ Gap \in Nat /\ MaxTime \in Nat
  /\ MaxBoots \in Nat \ {0}

NoReading == [source |-> "none", time |-> 0, boot |-> 0, error |-> FALSE, has |-> {},
              counters |-> [i \in Ifaces |-> 0], at |-> 0, epoch |-> 0,
              total |-> [i \in Ifaces |-> 0]]
NoSample  == [valid |-> FALSE, bytes |-> 0, dt |-> 0, traffic |-> 0, elapsed |-> 0,
              restarted |-> FALSE]

-----------------------------------------------------------------------------
Init ==
  /\ now = 0 /\ boot = 1
  /\ counters = [i \in Ifaces |-> 0] /\ total = counters
  /\ cached = NoReading /\ shown = {} /\ previous = NoReading
  /\ iface = None /\ chosen = FALSE
  /\ sample = NoSample /\ charted = {}

\* External: a second passes on the host, or it restarts meanwhile.
Tick ==
  /\ now < MaxTime /\ now' = now + 1
  /\ \E traffic \in [Ifaces -> 0..1] :
       /\ total' = [i \in Ifaces |-> total[i] + traffic[i]]
       /\ \/ counters' = [i \in Ifaces |-> counters[i] + traffic[i]] /\ UNCHANGED boot
          \/ boot < MaxBoots /\ boot' = boot + 1 /\ counters' = traffic
  /\ UNCHANGED <<cached, shown, previous, iface, chosen, sample, charted>>

\* What a reading says; `at`, `epoch` and `total` are not part of it.
Reading(source, has, error) ==
  [source |-> source, error |-> error, has |-> has, counters |-> counters,
   time |-> IF source = "agent" THEN now + Skew ELSE now,
   boot |-> IF source = "agent" THEN boot ELSE 0,
   at |-> now, epoch |-> boot, total |-> total]

\* The agent sends a sample of all interfaces to the server, which keeps the last.
Report ==
  /\ cached' = Reading("agent", Ifaces, FALSE)
  /\ UNCHANGED <<host, shown, previous, iface, chosen, sample, charted>>

-----------------------------------------------------------------------------
\* The interface the page takes by itself: of the reading at hand, in the order of the
\* preferences; without any, the loopback.
Preferred(has) ==
  CASE has \cap Physical # {}         -> has \cap Physical
    [] has \cap Physical = {} /\ has \ {Lo} # {} -> has \ {Lo}
    [] OTHER                          -> {Lo}

Repeats(m) == previous.source = m.source /\ previous.time = m.time

\* Mutant: readings of the agent and over SSH make a rate together.
ValidMixed(p, m, i) ==
  /\ i \in m.has /\ i \in p.has
  /\ m.time > p.time /\ m.time - p.time < Gap
  /\ ~m.error /\ m.counters[i] >= p.counters[i]

\* Whether two readings make a rate of an interface.
Valid(p, m, i) ==
  /\ i \in m.has /\ i \in p.has
  /\ m.time > p.time /\ m.time - p.time < Gap
  /\ p.source = m.source /\ p.boot = m.boot /\ ~m.error
  /\ m.counters[i] >= p.counters[i]

Point(p, m, i) ==
  IF Valid(p, m, i)
  THEN [valid |-> TRUE, bytes |-> m.counters[i] - p.counters[i], dt |-> m.time - p.time,
        traffic |-> m.total[i] - p.total[i], elapsed |-> m.at - p.at,
        restarted |-> m.epoch # p.epoch]
  ELSE NoSample

Shown(m) ==
  /\ shown' = m.has
  /\ IF Repeats(m) THEN UNCHANGED <<previous, iface, sample, charted>>
     ELSE \E i \in IF iface = None THEN Preferred(m.has) ELSE {iface} :
            /\ iface' = i
            /\ sample' = Point(previous, m, i) /\ charted' = charted \cup {i}
            /\ previous' = m
  /\ UNCHANGED <<host, cached, chosen>>

\* The collector sends the sample of the agent while it is recent, else what it reads over
\* SSH: some of the interfaces, or none, if the command fails.
FromAgent == cached # NoReading /\ now - cached.at <= 1 /\ Shown(cached)
OverSSH   == \/ Shown(Reading("ssh", Ifaces, FALSE))
             \/ \E has \in SUBSET Ifaces : Shown(Reading("ssh", has, TRUE))

Choose(i) ==
  /\ i \in shown /\ i # iface
  /\ iface' = i /\ chosen' = TRUE
  /\ charted' = {} /\ sample' = NoSample /\ previous' = NoReading
  /\ UNCHANGED <<host, cached, shown>>

-----------------------------------------------------------------------------
Next == Tick \/ Report \/ FromAgent \/ OverSSH \/ \E i \in Ifaces : Choose(i)

Spec == Init /\ [][Next]_vars

-----------------------------------------------------------------------------
TypeOK ==
  /\ now \in 0..MaxTime /\ boot \in 1..MaxBoots
  /\ counters \in [Ifaces -> 0..MaxTime] /\ total \in [Ifaces -> 0..MaxTime]
  /\ shown \subseteq Ifaces /\ charted \subseteq Ifaces
  /\ iface \in Ifaces \cup {None} /\ chosen \in BOOLEAN
  /\ previous.has \subseteq Ifaces /\ cached.has \subseteq Ifaces
  /\ sample.valid \in BOOLEAN

\* A rate is what went over the interface in the time between the two readings, and all
\* points of the chart are of the interface that is selected.  Readings over SSH carry no
\* boot id: a restart between two of them, less than ten seconds apart, is only seen if
\* a counter falls (Workspace: the readings' handler, the selection).
RatesAreReal ==
  /\ charted \subseteq {iface}
  /\ sample.valid =>
       \/ sample.bytes = sample.traffic /\ sample.dt = sample.elapsed
       \/ sample.restarted /\ previous.source = "ssh"
====
