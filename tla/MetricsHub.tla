---- MODULE MetricsHub ----
(***************************************************************************)
(* The resource readings of one host of one user, taken once a second by a *)
(* shared collector for all browser windows that watch: subscribing makes  *)
(* the hub and its collector, the last window to leave cancels it, and a   *)
(* window that comes just then gets a new one while the old one still      *)
(* ends.  Every window has a channel for one reading, in which a newer one *)
(* replaces one that is not fetched yet.                                   *)
(*                                                                         *)
(* What a reading is, from the agent's cache or over SSH, is left out: a   *)
(* reading is its number.                                                  *)
(***************************************************************************)
EXTENDS Naturals, Sequences, FiniteSets

CONSTANTS
  Windows,
  MaxHubs,      \* bound of the model: hubs that are made
  MaxReadings   \* bound of the model: readings of a hub

Assumptions == MaxHubs \in Nat /\ MaxReadings \in Nat

VARIABLES
  monitor,      \* the hub in the map s.monitors, or 0
  hubs,         \* how many were made
  subscribers,  \* of each hub
  cancelled,    \* hubs whose context is done
  collector,    \* where the goroutine of each hub is
  reading,      \* the number of its last reading
  mutex,        \* the hub that holds the server's lock to send its reading, or 0
  todo, full,   \* its subscribers it has not offered the reading; those found full
  channel,      \* of each window
  at,           \* the hub each window has subscribed to, or 0
  got           \* the last reading each window has fetched there

hubVars == <<monitor, hubs, subscribers, cancelled>>
sendVars == <<mutex, todo, full>>
vars == <<hubVars, collector, reading, sendVars, channel, at, got>>

Hubs == 1..MaxHubs
NoHub == 0

TypeOK ==
  /\ monitor \in 0..hubs /\ hubs \in 0..MaxHubs
  /\ subscribers \in [Hubs -> SUBSET Windows]
  /\ cancelled \subseteq Hubs
  /\ collector \in [Hubs -> {"none", "reading", "sending", "waiting", "done"}]
  /\ reading \in [Hubs -> 0..MaxReadings]
  /\ mutex \in 0..MaxHubs /\ todo \subseteq Windows /\ full \subseteq todo
  /\ channel \in [Windows -> Seq(1..MaxReadings)]
  /\ \A w \in Windows : Len(channel[w]) <= 1
  /\ at \in [Windows -> 0..MaxHubs]
  /\ got \in [Windows -> 0..MaxReadings]

Init ==
  /\ monitor = NoHub /\ hubs = 0
  /\ subscribers = [h \in Hubs |-> {}] /\ cancelled = {}
  /\ collector = [h \in Hubs |-> "none"] /\ reading = [h \in Hubs |-> 0]
  /\ mutex = NoHub /\ todo = {} /\ full = {}
  /\ channel = [w \in Windows |-> <<>>]
  /\ at = [w \in Windows |-> NoHub] /\ got = [w \in Windows |-> 0]

-----------------------------------------------------------------------------
(* subscribeMetrics; the lock is held for all of it *)

Subscribe(w) ==
  /\ at[w] = NoHub /\ mutex = NoHub
  /\ LET h == IF monitor = NoHub THEN hubs + 1 ELSE monitor IN
       /\ h \in Hubs
       /\ monitor' = h
       /\ hubs' = IF monitor = NoHub THEN h ELSE hubs
       /\ collector' = IF monitor = NoHub THEN [collector EXCEPT ![h] = "reading"] ELSE collector
       /\ subscribers' = [subscribers EXCEPT ![h] = @ \cup {w}]
       /\ at' = [at EXCEPT ![w] = h]
       /\ got' = [got EXCEPT ![w] = reading[h]]
  /\ channel' = [channel EXCEPT ![w] = <<>>]
  /\ UNCHANGED <<cancelled, reading, sendVars>>

\* Mutant: the last window leaves and the collector is not told.
UnsubscribeUncancelled(w) ==
  /\ at[w] # NoHub /\ mutex = NoHub
  /\ LET h == at[w] IN
       /\ subscribers' = [subscribers EXCEPT ![h] = @ \ {w}]
       /\ monitor' = IF subscribers[h] = {w} /\ monitor = h THEN NoHub ELSE monitor
  /\ at' = [at EXCEPT ![w] = NoHub]
  /\ UNCHANGED <<hubs, cancelled, collector, reading, sendVars, channel, got>>

Unsubscribe(w) ==
  /\ at[w] # NoHub /\ mutex = NoHub
  /\ LET h == at[w] IN
       /\ subscribers' = [subscribers EXCEPT ![h] = @ \ {w}]
       /\ IF subscribers[h] = {w}
          THEN /\ cancelled' = cancelled \cup {h}
               /\ monitor' = IF monitor = h THEN NoHub ELSE monitor
          ELSE UNCHANGED <<cancelled, monitor>>
  /\ at' = [at EXCEPT ![w] = NoHub]
  /\ UNCHANGED <<hubs, collector, reading, sendVars, channel, got>>

\* metrics: the window's handler fetches a reading and writes it out.
Fetch(w) ==
  /\ at[w] # NoHub /\ channel[w] # <<>>
  /\ got' = [got EXCEPT ![w] = Head(channel[w])]
  /\ channel' = [channel EXCEPT ![w] = <<>>]
  /\ UNCHANGED <<hubVars, collector, reading, sendVars, at>>

-----------------------------------------------------------------------------
(* collectMetrics *)

\* A reading is there, or the reason why there is none: that is sent as well.
Read(h) ==
  /\ collector[h] = "reading" /\ mutex = NoHub /\ reading[h] < MaxReadings
  /\ reading' = [reading EXCEPT ![h] = @ + 1]
  /\ collector' = [collector EXCEPT ![h] = "sending"]
  /\ mutex' = h /\ todo' = subscribers[h] /\ full' = {}
  /\ UNCHANGED <<hubVars, channel, at, got>>

\* Mutant: a channel that is full is passed over.
OfferOnce(w) ==
  /\ mutex # NoHub /\ w \in todo \ full
  /\ channel' = IF channel[w] = <<>> THEN [channel EXCEPT ![w] = <<reading[mutex]>>] ELSE channel
  /\ todo' = todo \ {w}
  /\ UNCHANGED <<hubVars, collector, reading, mutex, full, at, got>>

Offer(w) ==
  /\ mutex # NoHub /\ w \in todo \ full
  /\ IF channel[w] = <<>>
     THEN /\ channel' = [channel EXCEPT ![w] = <<reading[mutex]>>]
          /\ todo' = todo \ {w} /\ UNCHANGED full
     ELSE full' = full \cup {w} /\ UNCHANGED <<channel, todo>>
  /\ UNCHANGED <<hubVars, collector, reading, mutex, at, got>>

\* The window may have fetched what was found in its channel by now.
Replace(w) ==
  /\ w \in full
  /\ channel' = [channel EXCEPT ![w] = <<reading[mutex]>>]
  /\ todo' = todo \ {w} /\ full' = full \ {w}
  /\ UNCHANGED <<hubVars, collector, reading, mutex, at, got>>

Unlock(h) ==
  /\ mutex = h /\ todo = {}
  /\ mutex' = NoHub
  /\ collector' = [collector EXCEPT ![h] = "waiting"]
  /\ UNCHANGED <<hubVars, reading, todo, full, channel, at, got>>

\* The next second begins, or the hub is cancelled; when both have happened, either.
Wait(h) ==
  /\ collector[h] = "waiting"
  /\ \/ h \in cancelled /\ collector' = [collector EXCEPT ![h] = "done"]
     \/ reading[h] < MaxReadings /\ collector' = [collector EXCEPT ![h] = "reading"]
  /\ UNCHANGED <<hubVars, reading, sendVars, channel, at, got>>

Collect(h) == Read(h) \/ Unlock(h) \/ Wait(h)

Next ==
  \/ \E w \in Windows : Subscribe(w) \/ Unsubscribe(w) \/ Fetch(w) \/ Offer(w) \/ Replace(w)
  \/ \E h \in Hubs : Collect(h)

Spec == Init /\ [][Next]_vars

\* The collector's goroutine goes on; the ticker and a timeout limit each round.
Fairness ==
  /\ \A h \in Hubs : WF_vars(Collect(h))
  /\ \A w \in Windows : WF_vars(Offer(w) \/ Replace(w))

-----------------------------------------------------------------------------
(* Correctness *)

\* Whatever window leaves while another one comes: a window that watches is with
\* the hub in the map, whose collector has not been cancelled and has not ended;
\* and no other collector than this one works on without an end in sight.
Served ==
  /\ \A w \in Windows : at[w] # NoHub =>
       /\ at[w] = monitor /\ w \in subscribers[monitor]
       /\ monitor \notin cancelled /\ collector[monitor] \notin {"none", "done"}
  /\ \A h \in Hubs : h # monitor /\ collector[h] # "none" => h \in cancelled

\* Slow windows miss readings but never the last one: when a collector has sent its
\* reading, each of its subscribers has fetched it or will find it in its channel.
LastIsThere ==
  \A w \in Windows : at[w] # NoHub /\ (mutex # at[w] \/ w \notin todo) =>
    IF channel[w] # <<>> THEN channel[w] = <<reading[at[w]]>> ELSE got[w] = reading[at[w]]

\* A window that watches is served, and the last reading reaches it.
WindowsServed == Served /\ LastIsThere

\* A collector without a window ends, and with it the commands it sends over SSH.
CollectorEnds ==
  \A h \in Hubs :
    collector[h] # "none" /\ subscribers[h] = {} ~> collector[h] = "done" \/ subscribers[h] # {}
====
