---- MODULE ServerProofs ----
(***************************************************************************)
(* Proofs about Server: the places of connections, the collectors of       *)
(* readings, a download, the credits and the subscription, for any users,  *)
(* windows, pieces, calls and invoices; and with TaskExecutionProofs and    *)
(* MonitoringProofs the types of all parts.  Each part has its inductive   *)
(* invariant and the lemmas that its actions keep it; the theorems are     *)
(* about the behaviours of Server.                                         *)
(***************************************************************************)
EXTENDS Server, TaskExecutionProofs, MonitoringProofs, FiniteSetTheorems,
        SequenceTheorems, TLAPS

-----------------------------------------------------------------------------
(* The places of connections: Connections *)

LEMMA ConnsCounts == \A S : Conns!Cardinality(S) = Cardinality(S)
BY DEF Conns!Cardinality, Cardinality

\* What is in the map has left connect, which inserts it last.
ConnsInserted == \A a \in connections : attempt[a].stage = "over"

ConnsInv ==
  /\ Conns!TypeOK /\ ConnsInserted /\ IsFiniteSet(connections)
  /\ Conns!WithinLimits /\ Conns!NoneLost

LEMMA ConnsInitHolds == ASSUME Conns!Assumptions, Conns!Init PROVE ConnsInv
<1>1. Conns!TypeOK
  BY DEF Conns!Assumptions, Conns!Init, Conns!TypeOK, Conns!Attempt
<1>2. \A u \in Users : Conns!Of(u) = {}
  BY DEF Conns!Init, Conns!Of
<1> QED BY ConnsCounts, <1>1, <1>2, FS_EmptySet
           DEF Conns!Assumptions, Conns!Init, ConnsInv, ConnsInserted, Conns!WithinLimits,
               Conns!NoneLost

\* Fewer connections of the same attempts keep to the limits.
LEMMA ConnsFewerFit ==
  ASSUME Conns!Assumptions, ConnsInv, connections' \subseteq connections,
         \A a \in connections : attempt'[a].user = attempt[a].user
  PROVE  IsFiniteSet(connections)' /\ Conns!WithinLimits'
<1>1. IsFiniteSet(connections') /\ Cardinality(connections') <= Cardinality(connections)
  BY FS_Subset DEF ConnsInv
<1>2. Cardinality(connections) \in Nat /\ Cardinality(connections') \in Nat
  BY <1>1, FS_CardinalityType DEF ConnsInv
<1>3. ASSUME NEW u \in Users PROVE Cardinality(Conns!Of(u)') <= PerUser
  <2>1. Conns!Of(u)' \subseteq Conns!Of(u) /\ Conns!Of(u) \subseteq connections
    BY DEF Conns!Of
  <2>2. /\ IsFiniteSet(Conns!Of(u)) /\ IsFiniteSet(Conns!Of(u)')
        /\ Cardinality(Conns!Of(u)') <= Cardinality(Conns!Of(u))
    BY <2>1, FS_Subset DEF ConnsInv
  <2>3. Cardinality(Conns!Of(u)) \in Nat /\ Cardinality(Conns!Of(u)') \in Nat
    BY <2>2, FS_CardinalityType
  <2> QED BY ConnsCounts, <2>2, <2>3 DEF ConnsInv, Conns!WithinLimits, Conns!Assumptions
<1> QED BY ConnsCounts, <1>1, <1>2, <1>3 DEF ConnsInv, Conns!WithinLimits, Conns!Assumptions

\* The sessions, the hosts and the clients that are closed.
LEMMA ConnsRowsKeep ==
  ASSUME Conns!Assumptions, ConnsInv,
         \/ \E s \in Sessions : Conns!Expire(s) \/ Conns!Logout(s)
              \/ \E u \in Users : Conns!Login(s, u)
         \/ \E u \in Users : Conns!Change(u)
  PROVE  ConnsInv'
<1>1. Conns!TypeOK'
  <2>1. ASSUME NEW u \in Users, Conns!Change(u) PROVE Conns!TypeOK'
    <3>1. PICK next \in {0, changes + 2} : record' = [record EXCEPT ![u] = next]
      BY <2>1 DEF Conns!Change
    <3>2. changes' \in 0..MaxChanges /\ next \in 0..(MaxChanges + 1)
      BY <2>1, <3>1 DEF Conns!Change, ConnsInv, Conns!TypeOK, Conns!Assumptions
    <3> QED BY <2>1, <3>1, <3>2 DEF Conns!Change, ConnsInv, Conns!TypeOK
  <2> QED BY <2>1
             DEF ConnsInv, Conns!TypeOK, Conns!Expire, Conns!Logout, Conns!Login, Conns!Valid
<1>2. UNCHANGED <<connections, live, attempt>>
  BY DEF Conns!Expire, Conns!Logout, Conns!Login, Conns!Change
<1>3. IsFiniteSet(connections)' /\ Conns!WithinLimits'
  BY <1>2, ConnsFewerFit
<1> QED BY <1>1, <1>2, <1>3 DEF ConnsInv, ConnsInserted, Conns!NoneLost

LEMMA ConnsClosingKeeps ==
  ASSUME Conns!Assumptions, ConnsInv, NEW gone, Conns!CloseAll(gone),
         UNCHANGED <<Conns!rows, attempt, changes>>,
         sweeps' \subseteq sweeps, logouts' \subseteq logouts
  PROVE  ConnsInv'
<1>1. IsFiniteSet(connections)' /\ Conns!WithinLimits'
  BY ConnsFewerFit DEF Conns!CloseAll
<1> QED BY <1>1
           DEF ConnsInv, Conns!TypeOK, ConnsInserted, Conns!NoneLost, Conns!CloseAll, Conns!rows

LEMMA ConnsStagesKeep ==
  ASSUME Conns!Assumptions, ConnsInv, NEW a \in Attempts,
         (\E s \in Sessions : Conns!LoadHost(a, s)) \/ Conns!CountFirst(a) \/ Conns!Dial(a)
           \/ Conns!Close(a)
  PROVE  ConnsInv'
<1>1. Conns!TypeOK'
  <2>1. ASSUME NEW s \in Sessions, Conns!LoadHost(a, s) PROVE Conns!TypeOK'
    BY <2>1 DEF Conns!LoadHost, ConnsInv, Conns!TypeOK, Conns!Attempt, Conns!rows, Conns!Valid
  <2>2. CASE Conns!CountFirst(a)
    BY <2>2 DEF Conns!CountFirst, ConnsInv, Conns!TypeOK, Conns!Attempt, Conns!rows
  <2>3. CASE Conns!Dial(a)
    BY <2>3 DEF Conns!Dial, ConnsInv, Conns!TypeOK, Conns!Attempt, Conns!rows
  <2>4. CASE Conns!Close(a)
    BY <2>4 DEF Conns!Close, ConnsInv, Conns!TypeOK, Conns!rows
  <2> QED BY <2>1, <2>2, <2>3, <2>4
<1>2. connections' = connections /\ (Conns!Close(a) \/ a \notin connections)
  BY DEF Conns!LoadHost, Conns!CountFirst, Conns!Dial, Conns!Close, ConnsInv, ConnsInserted
<1>3. \A b \in connections : attempt'[b] = attempt[b]
  BY <1>2 DEF Conns!LoadHost, Conns!CountFirst, Conns!Dial, Conns!Close, ConnsInv, Conns!TypeOK
<1>4. IsFiniteSet(connections)' /\ Conns!WithinLimits'
  BY <1>2, <1>3, ConnsFewerFit
<1>5. ConnsInserted'
  BY <1>2, <1>3 DEF ConnsInv, ConnsInserted
<1>6. Conns!NoneLost'
  BY <1>2, <1>3
     DEF ConnsInv, Conns!TypeOK, Conns!Attempt, Conns!NoneLost, Conns!LoadHost,
         Conns!CountFirst, Conns!Dial, Conns!Close
<1> QED BY <1>1, <1>4, <1>5, <1>6 DEF ConnsInv

\* The second count, under the lock, is of what is in the map when the client is added.
LEMMA ConnsInsertKeeps ==
  ASSUME Conns!Assumptions, ConnsInv, NEW a \in Attempts, Conns!Insert(a)
  PROVE  ConnsInv'
<1> DEFINE me == attempt[a].user
<1>1. /\ attempt' = [attempt EXCEPT ![a].stage = "over"] /\ attempt[a].stage = "dialled"
      /\ UNCHANGED <<Conns!rows, sweeps, logouts, changes>>
  BY ConnsCounts DEF Conns!Insert
<1>2. a \notin connections /\ me \in Users \cup {NoUser}
  BY <1>1 DEF ConnsInv, ConnsInserted, Conns!TypeOK, Conns!Attempt
<1>3. \A b \in Attempts : attempt'[b].user = attempt[b].user
  BY <1>1 DEF ConnsInv, Conns!TypeOK, Conns!Attempt
<1>4. \A b \in Attempts : b # a => attempt'[b] = attempt[b]
  BY <1>1 DEF ConnsInv, Conns!TypeOK
<1>5. attempt'[a].stage = "over"
  BY <1>1 DEF ConnsInv, Conns!TypeOK, Conns!Attempt
<1>6. Conns!TypeOK'
  BY ConnsCounts, <1>1 DEF Conns!Insert, ConnsInv, Conns!TypeOK, Conns!Attempt, Conns!rows
<1>7. CASE connections' = connections /\ live' = live \ {a}
  <2>1. IsFiniteSet(connections)' /\ Conns!WithinLimits'
    BY <1>3, <1>7, ConnsFewerFit DEF ConnsInv, Conns!TypeOK
  <2> QED BY <1>4, <1>5, <1>6, <1>7, <2>1
             DEF ConnsInv, ConnsInserted, Conns!NoneLost, Conns!TypeOK
<1>8. CASE /\ connections' = connections \cup {a} /\ live' = live
           /\ Cardinality(Conns!Of(me)) < PerUser /\ Cardinality(connections) < Capacity
  <2>1. /\ IsFiniteSet(connections')
        /\ Cardinality(connections') = Cardinality(connections) + 1
        /\ Cardinality(connections) \in Nat
    BY <1>2, <1>8, FS_AddElement, FS_CardinalityType DEF ConnsInv
  <2>2. ASSUME NEW u \in Users PROVE Cardinality(Conns!Of(u)') <= PerUser
    <3>1. /\ Conns!Of(u) \subseteq connections /\ IsFiniteSet(Conns!Of(u))
          /\ Cardinality(Conns!Of(u)) \in Nat
      BY FS_Subset, FS_CardinalityType DEF ConnsInv, Conns!Of
    <3>2. CASE u = me
      <4>1. Conns!Of(u)' = Conns!Of(u) \cup {a}
        BY <1>3, <1>8, <3>2 DEF Conns!Of, ConnsInv, Conns!TypeOK
      <4>2. a \notin Conns!Of(u)
        BY <1>2 DEF Conns!Of
      <4>3. Cardinality(Conns!Of(u)') = Cardinality(Conns!Of(u)) + 1
        BY <3>1, <4>1, <4>2, FS_AddElement
      <4> QED BY <1>8, <3>1, <3>2, <4>3 DEF Conns!Assumptions
    <3>3. CASE u # me
      <4>1. Conns!Of(u)' = Conns!Of(u)
        BY <1>3, <1>8, <3>3 DEF Conns!Of, ConnsInv, Conns!TypeOK
      <4> QED BY ConnsCounts, <4>1 DEF ConnsInv, Conns!WithinLimits
    <3> QED BY <3>2, <3>3
  <2>3. Conns!WithinLimits'
    BY ConnsCounts, <1>8, <2>1, <2>2 DEF Conns!WithinLimits, Conns!Assumptions
  <2> QED BY <1>4, <1>5, <1>6, <1>8, <2>1, <2>3
             DEF ConnsInv, ConnsInserted, Conns!NoneLost, Conns!TypeOK
<1> QED BY ConnsCounts, <1>7, <1>8 DEF Conns!Insert

LEMMA ConnsNextKeeps ==
  ASSUME Conns!Assumptions, ConnsInv, [Conns!Next]_(Conns!vars)
  PROVE  ConnsInv'
<1>1. CASE UNCHANGED Conns!vars
  <2>1. IsFiniteSet(connections)' /\ Conns!WithinLimits'
    BY <1>1, ConnsFewerFit DEF Conns!vars
  <2> QED BY <1>1, <2>1 DEF Conns!vars, ConnsInv, Conns!TypeOK, ConnsInserted, Conns!NoneLost
<1>2. ASSUME NEW s \in Sessions, Conns!Expire(s) \/ Conns!Logout(s)
               \/ \E u \in Users : Conns!Login(s, u)
      PROVE  ConnsInv'
  BY <1>2, ConnsRowsKeep
<1>3. ASSUME NEW s \in Sessions, Conns!LogoutSweep(s) PROVE ConnsInv'
  BY <1>3, ConnsClosingKeeps DEF Conns!LogoutSweep
<1>4. ASSUME NEW a \in Attempts, Conns!Connect(a) \/ Conns!Close(a) PROVE ConnsInv'
  <2>1. CASE Conns!Insert(a)
    BY <2>1, ConnsInsertKeeps
  <2>2. CASE (\E s \in Sessions : Conns!LoadHost(a, s)) \/ Conns!CountFirst(a) \/ Conns!Dial(a)
               \/ Conns!Close(a)
    BY <2>2, ConnsStagesKeep
  <2> QED BY <1>4, <2>1, <2>2 DEF Conns!Connect
<1>5. ASSUME NEW a \in Attempts, Conns!Guard(a) \/ Conns!GuardFails(a) PROVE ConnsInv'
  BY <1>5, ConnsClosingKeeps DEF Conns!Guard, Conns!GuardFails
<1>6. ASSUME NEW u \in Users, Conns!Change(u) PROVE ConnsInv'
  BY <1>6, ConnsRowsKeep
<1>7. ASSUME NEW u \in Users, Conns!Sweep(u) PROVE ConnsInv'
  BY <1>7, ConnsClosingKeeps DEF Conns!Sweep
<1> QED BY <1>1, <1>2, <1>3, <1>4, <1>5, <1>6, <1>7 DEF Conns!Next

-----------------------------------------------------------------------------
(* The collectors of readings: MetricsHub *)

HubChannels == {<<>>} \cup {<<r>> : r \in 1..MaxReadings}

HubTypes ==
  /\ monitor \in 0..hubs /\ hubs \in 0..MaxHubs
  /\ subscribers \in [Hub!Hubs -> SUBSET Windows]
  /\ cancelled \subseteq Hub!Hubs
  /\ collector \in [Hub!Hubs -> {"none", "reading", "sending", "waiting", "done"}]
  /\ reading \in [Hub!Hubs -> 0..MaxReadings]
  /\ mutex \in 0..MaxHubs /\ todo \subseteq Windows /\ full \subseteq todo
  /\ channel \in [Windows -> HubChannels]
  /\ at \in [Windows -> 0..MaxHubs]
  /\ got \in [Windows -> 0..MaxReadings]

\* A hub has a collector from when it is made, which ends only when the hub is cancelled.
HubMade ==
  \A h \in Hub!Hubs :
    /\ h > hubs => collector[h] = "none" /\ subscribers[h] = {} /\ h \notin cancelled
    /\ h <= hubs => collector[h] # "none"
    /\ collector[h] = "done" => h \in cancelled

\* All hubs but the one in the map are cancelled, and that one is not.
HubOneHub ==
  /\ monitor \notin cancelled
  /\ \A h \in Hub!Hubs : h <= hubs /\ h # monitor => h \in cancelled
  /\ \A h \in cancelled : subscribers[h] = {}

\* A window is a subscriber of the hub it watches, and of no other.
HubSubscribed == \A w \in Windows, h \in Hub!Hubs : w \in subscribers[h] <=> at[w] = h

\* The hub that holds the lock is sending, to windows that are its subscribers.
HubSending ==
  /\ \A h \in Hub!Hubs : collector[h] = "sending" <=> mutex = h
  /\ \A w \in todo : mutex # Hub!NoHub /\ at[w] = mutex
  /\ mutex # Hub!NoHub => reading[mutex] # 0

HubInv == HubTypes /\ HubMade /\ HubOneHub /\ HubSubscribed /\ HubSending /\ Hub!LastIsThere

LEMMA HubInitHolds == ASSUME Hub!Assumptions, Hub!Init PROVE HubInv
<1> USE DEF Hub!Assumptions, Hub!Init, Hub!Hubs, Hub!NoHub
<1>1. HubTypes
  BY DEF HubTypes, HubChannels
<1>2. HubMade /\ HubOneHub /\ HubSubscribed /\ HubSending
  BY DEF HubMade, HubOneHub, HubSubscribed, HubSending
<1>3. Hub!LastIsThere
  BY DEF Hub!LastIsThere
<1> QED BY <1>1, <1>2, <1>3 DEF HubInv

LEMMA HubInvTyped == ASSUME Hub!Assumptions, HubInv PROVE Hub!TypeOK
<1>1. ASSUME NEW w \in Windows PROVE channel[w] \in Seq(1..MaxReadings) /\ Len(channel[w]) <= 1
  <2>1. channel[w] \in HubChannels
    BY DEF HubInv, HubTypes
  <2>2. CASE channel[w] = <<>>
    BY <2>2
  <2>3. ASSUME NEW r \in 1..MaxReadings, channel[w] = <<r>>
        PROVE  channel[w] \in Seq(1..MaxReadings) /\ Len(channel[w]) <= 1
    BY <2>3
  <2> QED BY <2>1, <2>2, <2>3 DEF HubChannels
<1> QED BY <1>1 DEF HubInv, HubTypes, Hub!TypeOK

LEMMA HubInvServes == ASSUME Hub!Assumptions, HubInv PROVE Hub!WindowsServed
<1>1. ASSUME NEW w \in Windows, at[w] # Hub!NoHub
      PROVE  /\ at[w] = monitor /\ w \in subscribers[monitor]
             /\ monitor \notin cancelled /\ collector[monitor] \notin {"none", "done"}
  <2>1. at[w] \in Hub!Hubs /\ w \in subscribers[at[w]] /\ hubs \in Nat
    BY <1>1 DEF HubInv, HubTypes, HubSubscribed, Hub!Hubs, Hub!NoHub
  <2>2. at[w] <= hubs
    BY <2>1 DEF HubInv, HubMade, Hub!Hubs
  <2>3. at[w] = monitor
    BY <2>1, <2>2 DEF HubInv, HubOneHub
  <2> QED BY <2>1, <2>2, <2>3 DEF HubInv, HubOneHub, HubMade
<1>2. ASSUME NEW h \in Hub!Hubs, h # monitor, collector[h] # "none" PROVE h \in cancelled
  BY <1>2 DEF HubInv, HubTypes, HubMade, HubOneHub, Hub!Hubs
<1> QED BY <1>1, <1>2 DEF HubInv, Hub!WindowsServed, Hub!Served

LEMMA HubSubscribeKeeps ==
  ASSUME Hub!Assumptions, HubInv, NEW w \in Windows, Hub!Subscribe(w)
  PROVE  HubInv'
<1>1. PICK h \in Hub!Hubs :
        /\ h = (IF monitor = Hub!NoHub THEN hubs + 1 ELSE monitor)
        /\ monitor' = h
        /\ hubs' = IF monitor = Hub!NoHub THEN h ELSE hubs
        /\ collector' = IF monitor = Hub!NoHub THEN [collector EXCEPT ![h] = "reading"]
             ELSE collector
        /\ subscribers' = [subscribers EXCEPT ![h] = @ \cup {w}]
        /\ at' = [at EXCEPT ![w] = h]
        /\ got' = [got EXCEPT ![w] = reading[h]]
  BY DEF Hub!Subscribe
<1>2. /\ at[w] = Hub!NoHub /\ mutex = Hub!NoHub /\ channel' = [channel EXCEPT ![w] = <<>>]
      /\ UNCHANGED <<cancelled, reading, Hub!sendVars>>
  BY DEF Hub!Subscribe
<1> USE DEF HubInv, HubTypes, Hub!Hubs, Hub!NoHub, Hub!sendVars
<1>3. hubs' \in 0..MaxHubs /\ monitor' \in 0..hubs' /\ hubs \in Nat
  BY <1>1
<1>4. HubTypes'
  <2>1. subscribers' \in [Hub!Hubs -> SUBSET Windows]
    <3>1. subscribers[h] \cup {w} \in SUBSET Windows
      OBVIOUS
    <3> QED BY <1>1, <3>1
  <2>4. at' \in [Windows -> 0..MaxHubs] /\ got' \in [Windows -> 0..MaxReadings]
    <3>1. h \in 0..MaxHubs /\ reading[h] \in 0..MaxReadings
      BY DEF Hub!Assumptions
    <3> QED BY <1>1, <3>1
  <2>2. channel' \in [Windows -> HubChannels]
    BY <1>2 DEF HubChannels
  <2>3. collector' \in [Hub!Hubs -> {"none", "reading", "sending", "waiting", "done"}]
    BY <1>1
  <2> QED BY <1>2, <1>3, <2>1, <2>2, <2>3, <2>4
<1>5. h \notin cancelled
  BY <1>1, <1>3 DEF HubOneHub, HubMade
<1>6. HubMade'
  BY <1>1, <1>2, <1>3 DEF HubMade
<1>7. HubOneHub'
  BY <1>1, <1>2, <1>3, <1>5 DEF HubOneHub, HubMade
<1>8. HubSubscribed'
  BY <1>1, <1>2 DEF HubSubscribed
<1>9. HubSending'
  BY <1>1, <1>2 DEF HubSending, HubMade
<1>10. Hub!LastIsThere'
  BY <1>1, <1>2 DEF Hub!LastIsThere, HubSending
<1> QED BY <1>4, <1>6, <1>7, <1>8, <1>9, <1>10 DEF HubInv

LEMMA HubUnsubscribeKeeps ==
  ASSUME Hub!Assumptions, HubInv, NEW w \in Windows, Hub!Unsubscribe(w)
  PROVE  HubInv'
<1> DEFINE h == at[w]
<1> USE DEF HubInv, HubTypes, Hub!Hubs, Hub!NoHub, Hub!sendVars
<1>1. /\ h \in Hub!Hubs /\ mutex = Hub!NoHub
      /\ subscribers' = [subscribers EXCEPT ![h] = @ \ {w}]
      /\ at' = [at EXCEPT ![w] = Hub!NoHub]
      /\ UNCHANGED <<hubs, collector, reading, Hub!sendVars, channel, got>>
  BY DEF Hub!Unsubscribe
<1>2. w \in subscribers[h] /\ h = monitor /\ h <= hubs
  BY <1>1, HubInvServes DEF Hub!Unsubscribe, Hub!WindowsServed, Hub!Served, HubMade
<1>3. \/ subscribers[h] = {w} /\ cancelled' = cancelled \cup {h} /\ monitor' = Hub!NoHub
      \/ subscribers[h] # {w} /\ UNCHANGED <<cancelled, monitor>>
  BY <1>2 DEF Hub!Unsubscribe
<1> HIDE DEF h
<1>4. HubTypes'
  <2>1. subscribers' \in [Hub!Hubs -> SUBSET Windows]
    <3>1. subscribers[h] \ {w} \in SUBSET Windows
      BY <1>1
    <3> QED BY <1>1, <3>1
  <2>2. at' \in [Windows -> 0..MaxHubs]
    BY <1>1
  <2>3. cancelled' \subseteq Hub!Hubs /\ monitor' \in 0..hubs'
    <3>1. MaxHubs \in Nat /\ hubs \in 0..MaxHubs /\ hubs' = hubs
      BY <1>1 DEF Hub!Assumptions
    <3>2. 0 \in 0..hubs
      BY <3>1
    <3>3. cancelled' \subseteq Hub!Hubs
      BY <1>1, <1>3
    <3>4. monitor' \in 0..hubs
      BY <1>3, <3>2
    <3> QED BY <3>1, <3>3, <3>4
  <2> QED BY <1>1, <2>1, <2>2, <2>3
<1>5. HubMade'
  BY <1>1, <1>2, <1>3 DEF HubMade
<1>6. HubOneHub'
  <2>1. CASE cancelled' = cancelled \cup {h} /\ monitor' = Hub!NoHub /\ subscribers[h] = {w}
    BY <1>1, <1>2, <2>1 DEF HubOneHub
  <2>2. CASE UNCHANGED <<cancelled, monitor>>
    BY <1>1, <1>2, <2>2 DEF HubOneHub
  <2> QED BY <1>3, <2>1, <2>2
<1>7. HubSubscribed'
  BY <1>1, <1>2 DEF HubSubscribed
<1>8. HubSending' /\ Hub!LastIsThere'
  BY <1>1 DEF HubSending, Hub!LastIsThere
<1> QED BY <1>4, <1>5, <1>6, <1>7, <1>8 DEF HubInv

\* Only channels, what windows have fetched, and who waits for the reading change.
LEMMA HubDeliveryKeeps ==
  ASSUME HubInv, UNCHANGED <<Hub!hubVars, collector, reading, mutex, at>>,
         todo' \subseteq todo, full' \subseteq todo', channel' \in [Windows -> HubChannels],
         got' \in [Windows -> 0..MaxReadings], Hub!LastIsThere'
  PROVE  HubInv'
<1>1. HubTypes'
  BY DEF HubInv, HubTypes, Hub!hubVars
<1>2. HubMade' /\ HubOneHub' /\ HubSubscribed' /\ HubSending'
  BY DEF HubInv, HubMade, HubOneHub, HubSubscribed, HubSending, Hub!hubVars
<1> QED BY <1>1, <1>2 DEF HubInv

LEMMA HubFetchKeeps ==
  ASSUME Hub!Assumptions, HubInv, NEW w \in Windows, Hub!Fetch(w)
  PROVE  HubInv'
<1>1. /\ at[w] # Hub!NoHub /\ channel[w] # <<>> /\ got' = [got EXCEPT ![w] = Head(channel[w])]
      /\ channel' = [channel EXCEPT ![w] = <<>>]
      /\ UNCHANGED <<Hub!hubVars, collector, reading, Hub!sendVars, at>>
  BY DEF Hub!Fetch
<1>2. PICK r \in 1..MaxReadings : channel[w] = <<r>>
  BY <1>1 DEF HubInv, HubTypes, HubChannels
<1>3. got' = [got EXCEPT ![w] = r] /\ got' \in [Windows -> 0..MaxReadings]
  BY <1>1, <1>2 DEF HubInv, HubTypes
<1>4. channel' \in [Windows -> HubChannels]
  BY <1>1 DEF HubInv, HubTypes, HubChannels
<1>5. ASSUME mutex # at[w] \/ w \notin todo PROVE reading[at[w]] = r
  BY <1>1, <1>2, <1>5 DEF HubInv, Hub!LastIsThere
<1>6. Hub!LastIsThere'
  BY <1>1, <1>3, <1>5 DEF HubInv, HubTypes, Hub!LastIsThere, Hub!sendVars
<1> QED BY <1>1, <1>3, <1>4, <1>6, HubDeliveryKeeps DEF HubInv, HubTypes, Hub!sendVars

\* The channel of a window is filled with the reading that is being sent.
LEMMA HubGivenKeeps ==
  ASSUME Hub!Assumptions, HubInv, NEW w \in todo,
         channel' = [channel EXCEPT ![w] = <<reading[mutex]>>],
         todo' = todo \ {w}, full' \subseteq todo \ {w},
         UNCHANGED <<Hub!hubVars, collector, reading, mutex, at, got>>
  PROVE  HubInv'
<1>1. mutex \in Hub!Hubs /\ at[w] = mutex /\ reading[mutex] \in 1..MaxReadings /\ w \in Windows
  BY DEF HubInv, HubTypes, HubSending, Hub!Hubs, Hub!NoHub, Hub!Assumptions
<1>2. channel' \in [Windows -> HubChannels]
  BY <1>1 DEF HubInv, HubTypes, HubChannels
<1>3. ASSUME NEW v \in Windows, at[v] # Hub!NoHub, mutex # at[v] \/ v \notin todo'
      PROVE  IF channel'[v] # <<>> THEN channel'[v] = <<reading[at[v]]>>
                                   ELSE got[v] = reading[at[v]]
  <2>1. CASE v = w
    BY <1>1, <2>1 DEF HubInv, HubTypes
  <2>2. CASE v # w
    BY <1>3, <2>2 DEF HubInv, HubTypes, Hub!LastIsThere
  <2> QED BY <2>1, <2>2
<1>4. Hub!LastIsThere'
  BY <1>3 DEF Hub!LastIsThere
<1> QED BY <1>2, <1>4, HubDeliveryKeeps DEF HubInv, HubTypes

LEMMA HubOffersKeep ==
  ASSUME Hub!Assumptions, HubInv, NEW w \in Windows, Hub!Offer(w) \/ Hub!Replace(w)
  PROVE  HubInv'
<1>1. CASE w \in todo /\ channel' = [channel EXCEPT ![w] = <<reading[mutex]>>]
           /\ todo' = todo \ {w} /\ full' \subseteq todo \ {w}
           /\ UNCHANGED <<Hub!hubVars, collector, reading, mutex, at, got>>
  BY <1>1, HubGivenKeeps
<1>2. CASE w \in todo /\ full' = full \cup {w}
           /\ UNCHANGED <<Hub!hubVars, collector, reading, mutex, at, got, channel, todo>>
  <2>1. Hub!LastIsThere'
    BY <1>2 DEF HubInv, Hub!LastIsThere
  <2> QED BY <1>2, <2>1, HubDeliveryKeeps DEF HubInv, HubTypes
<1> QED BY <1>1, <1>2 DEF Hub!Offer, Hub!Replace, HubInv, HubTypes

LEMMA HubReadKeeps ==
  ASSUME Hub!Assumptions, HubInv, NEW h \in Hub!Hubs, Hub!Read(h)
  PROVE  HubInv'
<1> USE DEF HubInv, HubTypes, Hub!Hubs, Hub!NoHub, Hub!hubVars
<1>1. /\ collector[h] = "reading" /\ mutex = Hub!NoHub /\ reading[h] < MaxReadings
      /\ reading' = [reading EXCEPT ![h] = @ + 1]
      /\ collector' = [collector EXCEPT ![h] = "sending"]
      /\ mutex' = h /\ todo' = subscribers[h] /\ full' = {}
      /\ UNCHANGED <<Hub!hubVars, channel, at, got>>
  BY DEF Hub!Read
<1>2. reading'[h] \in 1..MaxReadings
  BY <1>1 DEF Hub!Assumptions
<1>3. HubTypes'
  BY <1>1, <1>2
<1>4. HubMade' /\ HubOneHub' /\ HubSubscribed'
  BY <1>1 DEF HubMade, HubOneHub, HubSubscribed
<1>5. HubSending'
  <2>1. \A g \in Hub!Hubs : collector'[g] = "sending" <=> mutex' = g
    BY <1>1 DEF HubSending
  <2>2. \A w \in todo' : mutex' # Hub!NoHub /\ at'[w] = mutex'
    BY <1>1 DEF HubSubscribed
  <2> QED BY <1>1, <1>2, <2>1, <2>2 DEF HubSending
<1>6. Hub!LastIsThere'
  BY <1>1 DEF Hub!LastIsThere, HubSubscribed
<1> QED BY <1>3, <1>4, <1>5, <1>6 DEF HubInv

LEMMA HubRoundsKeep ==
  ASSUME Hub!Assumptions, HubInv, NEW h \in Hub!Hubs, Hub!Unlock(h) \/ Hub!Wait(h)
  PROVE  HubInv'
<1> USE DEF HubInv, HubTypes, Hub!Hubs, Hub!NoHub, Hub!hubVars, Hub!sendVars
<1>1. CASE Hub!Unlock(h)
  <2>1. /\ mutex = h /\ todo = {} /\ mutex' = Hub!NoHub /\ collector[h] = "sending"
        /\ collector' = [collector EXCEPT ![h] = "waiting"]
        /\ UNCHANGED <<Hub!hubVars, reading, todo, full, channel, at, got>>
    BY <1>1 DEF Hub!Unlock, HubSending
  <2>3. HubTypes'
    <3>1. collector' \in [Hub!Hubs -> {"none", "reading", "sending", "waiting", "done"}]
      BY <2>1
    <3> QED BY <2>1, <3>1 DEF Hub!Assumptions
  <2>4. HubMade' /\ HubOneHub' /\ HubSubscribed'
    BY <2>1 DEF HubMade, HubOneHub, HubSubscribed
  <2>2. HubSending' /\ Hub!LastIsThere'
    BY <2>1 DEF HubSending, Hub!LastIsThere
  <2> QED BY <2>2, <2>3, <2>4 DEF HubInv
<1>2. CASE Hub!Wait(h)
  <2>1. PICK next \in {"done", "reading"} :
          /\ collector' = [collector EXCEPT ![h] = next] /\ collector[h] = "waiting"
          /\ next = "done" => h \in cancelled
          /\ UNCHANGED <<Hub!hubVars, reading, Hub!sendVars, channel, at, got>>
    BY <1>2 DEF Hub!Wait
  <2>2. HubTypes' /\ HubMade' /\ HubOneHub' /\ HubSubscribed'
    BY <2>1 DEF HubMade, HubOneHub, HubSubscribed
  <2>3. HubSending' /\ Hub!LastIsThere'
    BY <2>1 DEF HubSending, Hub!LastIsThere
  <2> QED BY <2>2, <2>3 DEF HubInv
<1> QED BY <1>1, <1>2

LEMMA HubNextKeeps == ASSUME Hub!Assumptions, HubInv, [Hub!Next]_(Hub!vars) PROVE HubInv'
<1>1. ASSUME NEW w \in Windows,
             Hub!Subscribe(w) \/ Hub!Unsubscribe(w) \/ Hub!Fetch(w) \/ Hub!Offer(w)
               \/ Hub!Replace(w)
      PROVE  HubInv'
  BY <1>1, HubSubscribeKeeps, HubUnsubscribeKeeps, HubFetchKeeps, HubOffersKeep
<1>2. ASSUME NEW h \in Hub!Hubs, Hub!Collect(h) PROVE HubInv'
  BY <1>2, HubReadKeeps, HubRoundsKeep DEF Hub!Collect
<1>3. CASE UNCHANGED Hub!vars
  BY <1>3
     DEF Hub!vars, Hub!hubVars, Hub!sendVars, HubInv, HubTypes, HubMade, HubOneHub,
         HubSubscribed, HubSending, Hub!LastIsThere
<1> QED BY <1>1, <1>2, <1>3 DEF Hub!Next

-----------------------------------------------------------------------------
(* A download: DownloadStream *)

DownloadUpto(n) == [i \in 1..n |-> i]

LEMMA DownloadUptoNone == DownloadUpto(0) = <<>>
BY DEF DownloadUpto

LEMMA DownloadUptoNext ==
  ASSUME NEW n \in Nat
  PROVE  /\ DownloadUpto(n) \in Seq(1..n) /\ Len(DownloadUpto(n)) = n
         /\ Append(DownloadUpto(n), n + 1) = DownloadUpto(n + 1)
<1>1. DownloadUpto(n) \in Seq(1..n) /\ Len(DownloadUpto(n)) = n
  BY DEF DownloadUpto
<1>2. Append(DownloadUpto(n), n + 1) = DownloadUpto(n + 1)
  BY <1>1 DEF DownloadUpto
<1> QED BY <1>1, <1>2

\* Short sequences.
LEMMA DownloadAppended ==
  ASSUME NEW S, NEW s \in Seq(S), NEW m \in S, NEW t, t = Append(s, m)
  PROVE  /\ t \in Seq(S) /\ t # <<>> /\ Len(t) = Len(s) + 1 /\ t[Len(s) + 1] = m
         /\ \A i \in 1..Len(s) : t[i] = s[i]
OBVIOUS

\* Of sequences of one and of two elements.
LEMMA DownloadOnlyOne == ASSUME NEW n \in Nat \ {0}, ~(1 \in 1..(n - 1)) PROVE n = 1
OBVIOUS

LEMMA DownloadSecondOfTwo == ASSUME NEW S, NEW s \in Seq(S), Len(s) = 2 PROVE Tail(s)[1] = s[2]
<1>1. s # <<>>
  OBVIOUS
<1>2. Len(Tail(s)) = 1 /\ \A i \in 1..Len(Tail(s)) : Tail(s)[i] = s[i + 1]
  BY <1>1, HeadTailProperties
<1>3. \A n : n = 1 => 1 \in 1..n
  OBVIOUS
<1>4. Tail(s)[1] = s[1 + 1]
  BY <1>2, <1>3, Zenon
<1>5. 1 + 1 = 2
  OBVIOUS
<1> QED BY <1>4, <1>5, Zenon

LEMMA DownloadShort ==
  ASSUME NEW S, NEW s \in Seq(S)
  PROVE  /\ Len(s) <= 1 => Len(s) \in 0..1 /\ (s # <<>> <=> Len(s) = 1)
         /\ Len(s) <= 2 /\ s # <<>> => Len(s) \in 1..2
<1>1. PICK n \in Nat : n = Len(s)
  OBVIOUS
<1>2. s # <<>> <=> n > 0
  BY <1>1
<1>3. n <= 1 => n \in 0..1 /\ (n > 0 <=> n = 1)
  OBVIOUS
<1>4. n <= 2 /\ n > 0 => n \in 1..2
  OBVIOUS
<1> QED BY <1>1, <1>2, <1>3, <1>4, Zenon

DownloadTypes ==
  /\ page \in {"starting", "waiting", "done", "failed", "cancelled", "closed"}
  /\ fetching \in BOOLEAN /\ sent \in 0..Chunks
  /\ port \in {"none", "open", "closed"} /\ offered \in BOOLEAN /\ timer \in BOOLEAN
  /\ stream \in {"none", "readable", "closed", "errored"}
  /\ pulling \in BOOLEAN /\ terminated \in BOOLEAN
  /\ frame \in {"none", "asked", "saving", "expired", "complete", "broken", "quit"}

\* Only a page that has given up sends an error, once; then nothing reaches it any more.
DownloadToTheWorker ==
  /\ toWorker \in Seq(Download!Message) /\ Len(toWorker) <= 2
  /\ \A i \in 1..Len(toWorker) :
       /\ toWorker[i].type = "error" => page # "waiting"
       /\ i = 2 => toWorker[i].type = "error"
       /\ toWorker[i].type = "download" => i = 1
  /\ page = "starting" => port = "none" /\ toWorker = <<>>

DownloadToThePage ==
  /\ toPage \in Seq({"ready", "pull", "finished", "cancel"}) /\ Len(toPage) <= 3
  /\ page # "waiting" => ~fetching /\ toPage = <<>>
  /\ \A i \in 1..Len(toPage) :
       /\ toPage[i] = "ready" => i = 1 /\ frame = "none" /\ saved = <<>>
       /\ toPage[i] = "finished" => stream = "closed"
  /\ page = "done" => stream = "closed"

DownloadBefore ==
  port = "none" =>
    /\ toWorker # <<>> => toWorker[1].type = "download"
    /\ page = "waiting" => toWorker # <<>>
    /\ toPage = <<>> /\ ~fetching /\ sent = 0 /\ saved = <<>> /\ queue = <<>>
    /\ frame = "none" /\ stream = "none" /\ ~pulling /\ ~timer /\ ~offered

\* The stream has asked for more exactly when it has nothing for the browser: the page is asked,
\* reads, or has answered with one chunk or the end.
DownloadComes(type) == toWorker # <<>> /\ toWorker[1].type = type

DownloadDuring ==
  port = "open" =>
    /\ stream = "readable"
    /\ toPage # <<>> => /\ ~fetching /\ pulling /\ toWorker = <<>>
                        /\ toPage[Len(toPage)] = "pull"
                        /\ \A i \in 1..(Len(toPage) - 1) : toPage[i] = "ready"
    /\ fetching => pulling /\ toWorker = <<>>
    /\ toWorker # <<>> => toWorker[1].type \in {"chunk", "done", "error"}
    /\ DownloadComes("chunk") \/ DownloadComes("done") => pulling
    /\ DownloadComes("chunk") => sent > 0 /\ toWorker[1].chunk = sent
         /\ saved = DownloadUpto(sent - 1)
    /\ DownloadComes("done") => sent = Chunks
    /\ pulling => queue = <<>> /\ (~DownloadComes("chunk") => saved = DownloadUpto(sent))
    /\ ~pulling => queue = <<sent>> /\ sent > 0 /\ saved = DownloadUpto(sent - 1)

DownloadAfter ==
  port = "closed" =>
    /\ toWorker = <<>> /\ queue = <<>> /\ ~pulling /\ ~timer /\ ~offered
    /\ stream \in {"closed", "errored"}
    /\ stream = "closed" => saved = DownloadUpto(Chunks)
    /\ saved \in Seq(1..Chunks) /\ Len(saved) <= Chunks

\* The frame asks once, and gets chunks only while it saves.
DownloadFramed ==
  /\ frame \in {"none", "asked", "expired"} => saved = <<>>
  /\ frame = "complete" => stream = "closed"
  /\ frame = "broken" => stream = "errored"
  /\ frame = "quit" => stream \in {"closed", "errored"}

DownloadInv ==
  /\ DownloadTypes /\ DownloadToTheWorker /\ DownloadToThePage
  /\ DownloadBefore /\ DownloadDuring /\ DownloadAfter /\ DownloadFramed

LEMMA DownloadInitHolds == ASSUME Download!Assumptions, Download!Init PROVE DownloadInv
<1> USE DEF Download!Assumptions, Download!Init
<1>1. DownloadTypes
  <2>1. fetching \in BOOLEAN /\ offered \in BOOLEAN /\ timer \in BOOLEAN
    BY Zenon
  <2>2. pulling \in BOOLEAN /\ terminated \in BOOLEAN
    BY Zenon
  <2>3. sent \in 0..Chunks
    OBVIOUS
  <2> QED BY <2>1, <2>2, <2>3 DEF DownloadTypes
<1>2. DownloadToTheWorker /\ DownloadToThePage
  BY DEF DownloadToTheWorker, DownloadToThePage
<1>3. DownloadBefore /\ DownloadDuring /\ DownloadAfter /\ DownloadFramed
  BY DEF DownloadBefore, DownloadDuring, DownloadAfter, DownloadFramed
<1> QED BY <1>1, <1>2, <1>3 DEF DownloadInv

LEMMA DownloadInvTyped == ASSUME Download!Assumptions, DownloadInv PROVE Download!TypeOK
<1>1. /\ queue \in Seq(1..Chunks) /\ Len(queue) <= 1
      /\ saved \in Seq(1..Chunks) /\ Len(saved) <= Chunks
  <2>1. CASE port = "none"
    BY <2>1 DEF DownloadInv, DownloadBefore, Download!Assumptions
  <2>2. CASE port = "open"
    <3>1. \A n \in 0..Chunks : DownloadUpto(n) \in Seq(1..Chunks)
            /\ Len(DownloadUpto(n)) <= Chunks
      BY DEF DownloadUpto, Download!Assumptions
    <3>2. saved \in {DownloadUpto(n) : n \in 0..Chunks}
      BY <2>2 DEF DownloadInv, DownloadTypes, DownloadDuring, Download!Assumptions
    <3>3. CASE pulling
      BY <2>2, <3>1, <3>2, <3>3 DEF DownloadInv, DownloadDuring, Download!Assumptions
    <3>4. CASE ~pulling
      <4>1. sent \in 1..Chunks /\ queue = <<sent>>
        BY <2>2, <3>4 DEF DownloadInv, DownloadTypes, DownloadDuring, Download!Assumptions
      <4> QED BY <3>1, <3>2, <4>1
    <3> QED BY <3>3, <3>4
  <2>3. CASE port = "closed"
    BY <2>3 DEF DownloadInv, DownloadAfter
  <2> QED BY <2>1, <2>2, <2>3 DEF DownloadInv, DownloadTypes
<1> QED BY <1>1
           DEF DownloadInv, DownloadTypes, DownloadToTheWorker, DownloadToThePage,
               Download!TypeOK, Download!Assumptions

LEMMA DownloadInvWhole ==
  ASSUME Download!Assumptions, Chunks > 0, DownloadInv
  PROVE  Download!DoneIsWhole
<1> SUFFICES ASSUME page = "done" PROVE Download!DoneIsWhole
  BY DEF Download!DoneIsWhole
<1>1. stream = "closed" /\ port = "closed" /\ saved = DownloadUpto(Chunks)
  BY DEF DownloadInv, DownloadTypes, DownloadToThePage, DownloadAfter, DownloadBefore,
         DownloadDuring
<1>2. DownloadUpto(Chunks) # <<>>
  BY DownloadUptoNext DEF Download!Assumptions
<1>3. frame \in {"saving", "complete", "quit"}
  BY <1>1, <1>2 DEF DownloadInv, DownloadTypes, DownloadFramed
<1> QED BY <1>1, <1>3 DEF Download!DoneIsWhole, DownloadUpto

\* What the page says reaches a worker that still listens, after all it has said before.
LEMMA DownloadSays ==
  ASSUME Download!Assumptions, DownloadInv, NEW m \in Download!Message, Download!ToWorker(m),
         page = "waiting"
  PROVE  /\ port = "closed" => toWorker' = <<>>
         /\ port # "closed" => toWorker' = Append(toWorker, m) /\ Len(toWorker) <= 1
         /\ toWorker' \in Seq(Download!Message) /\ Len(toWorker') <= 2
         /\ \A i \in 1..Len(toWorker) : /\ port # "closed" => toWorker'[i] = toWorker[i]
                                        /\ toWorker[i].type # "error"
<1>1. \A i \in 1..Len(toWorker) : toWorker[i].type # "error"
  BY DEF DownloadInv, DownloadToTheWorker
<1>2. Len(toWorker) <= 1
  BY <1>1 DEF DownloadInv, DownloadToTheWorker
<1> QED BY <1>1, <1>2 DEF Download!ToWorker, DownloadInv, DownloadToTheWorker

LEMMA DownloadBeginKeeps ==
  ASSUME Download!Assumptions, DownloadInv, Download!Begin \/ Download!BeginFails
  PROVE  DownloadInv'
<1>1. CASE Download!Begin
  <2>1. /\ page = "starting" /\ page' = "waiting" /\ port = "none" /\ toWorker = <<>>
        /\ toWorker' = <<Download!Told("download")>>
        /\ UNCHANGED <<fetching, sent, toPage, Download!workerVars, Download!frameVars>>
    BY <1>1 DEF Download!Begin, Download!ToWorker, DownloadInv, DownloadToTheWorker
  <2>2. /\ Download!Told("download") \in Download!Message
        /\ Download!Told("download").type = "download"
    BY DEF Download!Told, Download!Message, Download!Assumptions
  <2>3. DownloadToTheWorker'
    BY <2>1, <2>2 DEF DownloadToTheWorker, Download!workerVars
  <2>4. DownloadToThePage'
    BY <2>1
       DEF DownloadInv, DownloadBefore, DownloadToThePage, Download!workerVars,
           Download!frameVars
  <2>5. /\ DownloadTypes' /\ DownloadBefore' /\ DownloadDuring' /\ DownloadAfter'
        /\ DownloadFramed'
    BY <2>1, <2>2
       DEF DownloadInv, DownloadTypes, DownloadBefore, DownloadDuring, DownloadAfter,
           DownloadFramed, Download!workerVars, Download!frameVars
  <2> QED BY <2>3, <2>4, <2>5 DEF DownloadInv
<1>2. CASE Download!BeginFails
  BY <1>2
     DEF Download!BeginFails, DownloadInv, DownloadTypes, DownloadToTheWorker,
         DownloadToThePage, DownloadBefore, DownloadDuring, DownloadAfter, DownloadFramed,
         DownloadComes, Download!workerVars, Download!frameVars
<1> QED BY <1>1, <1>2

\* A page that gives up may send an error, and nothing comes to it any more.
LEMMA DownloadGivingUpKeeps ==
  ASSUME Download!Assumptions, DownloadInv, page = "waiting",
         NEW result \in {"failed", "cancelled", "closed"},
         Download!Settle(result), Download!ToWorker(Download!Told("error"))
           \/ UNCHANGED toWorker,
         UNCHANGED <<sent, Download!workerVars, saved>>,
         frame' = frame \/ (frame = "asked" /\ frame' = "none")
  PROVE  DownloadInv'
<1>1. Download!Told("error") \in Download!Message /\ Download!Told("error").type = "error"
  BY DEF Download!Told, Download!Message, Download!Assumptions
<1>2. page' = result /\ fetching' = FALSE /\ toPage' = <<>>
  BY DEF Download!Settle
<1>3. /\ toWorker' \in Seq(Download!Message) /\ Len(toWorker') <= 2
      /\ toWorker # <<>> /\ port # "closed" => toWorker' # <<>> /\ toWorker'[1] = toWorker[1]
      /\ toWorker = <<>> /\ toWorker' # <<>> => port # "closed" /\ toWorker'[1].type = "error"
      /\ \A i \in 1..Len(toWorker') :
           \/ toWorker'[i] = Download!Told("error")
           \/ i \in 1..Len(toWorker) /\ toWorker'[i] = toWorker[i]
      /\ Len(toWorker') = 2 => toWorker'[2] = Download!Told("error")
      /\ port = "closed" => toWorker' = <<>>
  <2>1. CASE Download!ToWorker(Download!Told("error"))
    <3>1. CASE port = "closed"
      BY <1>1, <2>1, <3>1, DownloadSays
    <3>2. CASE port # "closed"
      <4>1. toWorker' = Append(toWorker, Download!Told("error")) /\ Len(toWorker) <= 1
        BY <1>1, <2>1, <3>2, DownloadSays
      <4>2. toWorker \in Seq(Download!Message)
        BY DEF DownloadInv, DownloadToTheWorker
      <4>3. /\ toWorker' \in Seq(Download!Message) /\ Len(toWorker') = Len(toWorker) + 1
            /\ toWorker'[Len(toWorker) + 1] = Download!Told("error")
            /\ \A i \in 1..Len(toWorker) : toWorker'[i] = toWorker[i]
            /\ Len(toWorker) \in 0..1 /\ (toWorker # <<>> <=> Len(toWorker) = 1)
        <5>1. Len(toWorker) \in 0..1 /\ (toWorker # <<>> <=> Len(toWorker) = 1)
          BY <4>1, <4>2, DownloadShort, Zenon
        <5>2. /\ toWorker' \in Seq(Download!Message) /\ Len(toWorker') = Len(toWorker) + 1
              /\ toWorker'[Len(toWorker) + 1] = Download!Told("error")
              /\ \A i \in 1..Len(toWorker) : toWorker'[i] = toWorker[i]
          BY <1>1, <4>1, <4>2, DownloadAppended
        <5> QED BY <5>1, <5>2
      <4>4. \A i \in 1..Len(toWorker') : i = Len(toWorker) + 1 \/ i \in 1..Len(toWorker)
        BY <4>3
      <4>5. toWorker = <<>> => Len(toWorker') = 1 /\ toWorker'[1] = Download!Told("error")
        BY <4>3
      <4>6. toWorker # <<>> => /\ Len(toWorker') = 2 /\ toWorker'[1] = toWorker[1]
                               /\ toWorker'[2] = Download!Told("error")
        BY <4>3
      <4>7. toWorker' # <<>>
        BY <4>3
      <4>8. Len(toWorker') <= 2 /\ (Len(toWorker') = 2 => toWorker # <<>>)
        BY <4>3
      <4>9. \A i \in 1..Len(toWorker') :
           \/ toWorker'[i] = Download!Told("error")
           \/ i \in 1..Len(toWorker) /\ toWorker'[i] = toWorker[i]
        BY <4>3, <4>4
      <4> QED BY <1>1, <3>2, <4>3, <4>5, <4>6, <4>7, <4>8, <4>9, Zenon
    <3> QED BY <3>1, <3>2
  <2>2. CASE UNCHANGED toWorker
    BY <2>2 DEF DownloadInv, DownloadToTheWorker, DownloadAfter
  <2> QED BY <2>1, <2>2
<1>4. DownloadTypes'
  BY <1>2 DEF DownloadInv, DownloadTypes, Download!workerVars
<1>5. DownloadToTheWorker'
  BY <1>1, <1>2, <1>3 DEF DownloadInv, DownloadToTheWorker
<1>6. DownloadToThePage'
  BY <1>2 DEF DownloadToThePage
<1>7. DownloadBefore'
  BY <1>2, <1>3 DEF DownloadInv, DownloadBefore, Download!workerVars
<1>8. DownloadDuring'
  <2>1. SUFFICES ASSUME port = "open" PROVE DownloadDuring'
    BY DEF DownloadDuring, Download!workerVars
  <2>2. \A type \in {"chunk", "done"} : DownloadComes(type)' = DownloadComes(type)
    BY <1>3, <2>1 DEF DownloadComes
  <2> QED BY <1>2, <1>3, <2>1, <2>2
             DEF DownloadInv, DownloadDuring, DownloadComes, Download!workerVars
<1>9. DownloadAfter'
  BY <1>3 DEF DownloadInv, DownloadAfter, Download!workerVars
<1>10. DownloadFramed'
  BY DEF DownloadInv, DownloadFramed, Download!workerVars
<1> QED BY <1>4, <1>5, <1>6, <1>7, <1>8, <1>9, <1>10 DEF DownloadInv

LEMMA DownloadPageGoesKeeps ==
  ASSUME Download!Assumptions, DownloadInv, Download!Abort \/ Download!ClosePage
           \/ Download!ReadFails \/ Download!Cancelled PROVE DownloadInv'
<1>1. CASE Download!Abort \/ Download!ReadFails \/ Download!Cancelled
  <2>1. page = "waiting"
    BY <1>1
       DEF Download!Abort, Download!ReadFails, Download!Cancelled, DownloadInv,
           DownloadToThePage
  <2>2. \E result \in {"failed", "cancelled", "closed"} : Download!Settle(result)
    BY <1>1 DEF Download!Abort, Download!ReadFails, Download!Cancelled
  <2>3. (Download!ToWorker(Download!Told("error")) \/ UNCHANGED toWorker)
          /\ UNCHANGED <<sent, Download!workerVars, frame, saved>>
    BY <1>1 DEF Download!Abort, Download!ReadFails, Download!Cancelled, Download!frameVars
  <2> QED BY <2>1, <2>2, <2>3, DownloadGivingUpKeeps
<1>2. CASE Download!ClosePage /\ page = "waiting"
  BY <1>2, DownloadGivingUpKeeps DEF Download!ClosePage
<1>3. CASE Download!ClosePage /\ page = "starting"
  BY <1>3
     DEF Download!ClosePage, Download!Settle, DownloadInv, DownloadTypes, DownloadToTheWorker,
         DownloadToThePage, DownloadBefore, DownloadDuring, DownloadAfter, DownloadFramed,
         DownloadComes, Download!workerVars
<1> QED BY <1>1, <1>2, <1>3 DEF Download!ClosePage

LEMMA DownloadFinishedKeeps ==
  ASSUME Download!Assumptions, DownloadInv, Download!Finished
  PROVE  DownloadInv'
<1>1. /\ toPage # <<>> /\ toPage[1] = "finished" /\ page' = "done" /\ fetching' = FALSE
      /\ toPage' = <<>> /\ UNCHANGED <<sent, toWorker, Download!workerVars, Download!frameVars>>
  BY DEF Download!Finished, Download!Settle
<1>2. stream = "closed" /\ port = "closed"
  BY <1>1 DEF DownloadInv, DownloadTypes, DownloadToThePage, DownloadBefore, DownloadDuring
<1>3. DownloadTypes'
  BY <1>1 DEF DownloadInv, DownloadTypes, Download!workerVars, Download!frameVars
<1>4. DownloadToTheWorker' /\ DownloadToThePage'
  BY <1>1, <1>2
     DEF DownloadInv, DownloadToTheWorker, DownloadToThePage, Download!workerVars,
         Download!frameVars
<1>5. DownloadBefore' /\ DownloadDuring' /\ DownloadAfter' /\ DownloadFramed'
  BY <1>1, <1>2
     DEF DownloadInv, DownloadBefore, DownloadDuring, DownloadAfter, DownloadFramed,
         Download!workerVars, Download!frameVars
<1> QED BY <1>3, <1>4, <1>5 DEF DownloadInv

\* A message that the page takes was the first of those on their way.
LEMMA DownloadPageTakes ==
  ASSUME Download!Assumptions, DownloadInv, toPage # <<>>, toPage' = Tail(toPage)
  PROVE  /\ toPage' \in Seq({"ready", "pull", "finished", "cancel"})
         /\ Len(toPage') = Len(toPage) - 1 /\ Len(toPage) <= 3 /\ page = "waiting"
         /\ \A i \in 1..Len(toPage') : toPage'[i] = toPage[i + 1]
BY DEF DownloadInv, DownloadToThePage

LEMMA DownloadReadyKeeps ==
  ASSUME Download!Assumptions, DownloadInv, Download!Ready
  PROVE  DownloadInv'
<1>1. /\ toPage # <<>> /\ toPage[1] = "ready" /\ frame' = "asked" /\ toPage' = Tail(toPage)
      /\ UNCHANGED <<page, fetching, sent, toWorker, Download!workerVars, saved>>
  BY DEF Download!Ready, Download!pageVars
<1>2. frame = "none" /\ saved = <<>> /\ Len(toPage) \in Nat
  BY <1>1 DEF DownloadInv, DownloadToThePage
<1>3. DownloadToThePage'
  BY <1>1, <1>2, DownloadPageTakes DEF DownloadInv, DownloadToThePage, Download!workerVars
<1>4. DownloadDuring'
  <2>1. SUFFICES ASSUME port = "open" PROVE DownloadDuring'
    BY <1>1 DEF DownloadDuring, Download!workerVars
  <2>2. Len(toPage) > 1 /\ toPage'[Len(toPage')] = "pull"
    BY <1>1, <1>2, <2>1, DownloadPageTakes DEF DownloadInv, DownloadDuring
  <2>3. \A i \in 1..(Len(toPage') - 1) : toPage'[i] = "ready"
    BY <1>1, <1>2, <2>1, DownloadPageTakes DEF DownloadInv, DownloadDuring
  <2> QED BY <1>1, <2>1, <2>2, <2>3
             DEF DownloadInv, DownloadDuring, DownloadComes, Download!workerVars
<1> QED BY <1>1, <1>2, <1>3, <1>4
           DEF DownloadInv, DownloadTypes, DownloadToTheWorker, DownloadBefore, DownloadAfter,
               DownloadFramed, Download!workerVars

LEMMA DownloadPulledKeeps ==
  ASSUME Download!Assumptions, DownloadInv, Download!Pulled
  PROVE  DownloadInv'
<1>1. /\ toPage # <<>> /\ toPage[1] = "pull" /\ fetching' = TRUE /\ toPage' = Tail(toPage)
      /\ UNCHANGED <<page, sent, toWorker, Download!workerVars, frame, saved>>
  BY DEF Download!Pulled, Download!frameVars
<1>2. DownloadToThePage'
  BY <1>1, DownloadPageTakes DEF DownloadInv, DownloadToThePage, Download!workerVars
<1>3. DownloadDuring'
  <2>1. SUFFICES ASSUME port = "open" PROVE DownloadDuring'
    BY <1>1 DEF DownloadDuring, Download!workerVars
  <2>2. Len(toPage) = 1 /\ toPage' = <<>>
    <3>1. Len(toPage) \in Nat \ {0}
      BY <1>1 DEF DownloadInv, DownloadToThePage
    <3>2. \A i \in 1..(Len(toPage) - 1) : toPage[i] = "ready"
      BY <1>1, <2>1 DEF DownloadInv, DownloadDuring
    <3>3. ~(1 \in 1..(Len(toPage) - 1))
      BY <1>1, <3>2
    <3>4. Len(toPage) = 1
      BY <3>1, <3>3, DownloadOnlyOne
    <3> QED BY <1>1, <3>4, DownloadPageTakes
  <2> QED BY <1>1, <2>1, <2>2
             DEF DownloadInv, DownloadDuring, DownloadComes, Download!workerVars
<1> QED BY <1>1, <1>2, <1>3
           DEF DownloadInv, DownloadTypes, DownloadToTheWorker, DownloadBefore, DownloadAfter,
               DownloadFramed, Download!workerVars

\* The answer to a pull is the only message to a worker that listens.
LEMMA DownloadReadKeeps ==
  ASSUME Download!Assumptions, DownloadInv, Download!Read
  PROVE  DownloadInv'
<1>1. /\ fetching /\ fetching' = FALSE /\ UNCHANGED <<page, toPage, Download!workerVars, frame,
                                                      saved>>
  BY DEF Download!Read, Download!frameVars
<1>2. page = "waiting" /\ port # "none"
  BY <1>1 DEF DownloadInv, DownloadToThePage, DownloadBefore
<1>3. PICK m \in Download!Message :
        /\ Download!ToWorker(m) /\ sent' \in 0..Chunks
        /\ \/ m.type = "chunk" /\ m.chunk = sent' /\ sent' = sent + 1
           \/ m.type = "done" /\ sent' = sent /\ sent = Chunks
  BY DEF Download!Read, Download!Told, Download!Chunk, Download!Message, DownloadInv,
         DownloadTypes, Download!Assumptions
<1>4. /\ port = "open" => Len(toWorker') = 1 /\ toWorker' # <<>> /\ toWorker'[1] = m
      /\ port = "closed" => toWorker' = <<>>
      /\ toWorker' \in Seq(Download!Message)
  <2>1. CASE port = "open"
    <3>1. toWorker' = Append(<<>>, m)
      BY <1>1, <1>3, <2>1 DEF Download!ToWorker, DownloadInv, DownloadDuring
    <3> QED BY <2>1, <3>1
  <2>2. CASE port = "closed"
    BY <1>3, <2>2 DEF Download!ToWorker
  <2> QED BY <1>2, <2>1, <2>2 DEF DownloadInv, DownloadTypes
<1>5. DownloadTypes'
  BY <1>1, <1>3 DEF DownloadInv, DownloadTypes, Download!workerVars
<1>6. DownloadToTheWorker'
  <2>1. Len(toWorker') <= 1 /\ (toWorker' # <<>> => toWorker'[1].type \in {"chunk", "done"})
    <3>1. CASE port = "open"
      <4>1. Len(toWorker') = 1 /\ toWorker'[1] = m
        BY <1>4, <3>1
      <4> QED BY <1>3, <4>1
    <3>2. CASE port = "closed"
      BY <1>4, <3>2
    <3> QED BY <1>2, <3>1, <3>2 DEF DownloadInv, DownloadTypes
  <2> QED BY <1>1, <1>2, <1>4, <2>1 DEF DownloadToTheWorker
<1>7. DownloadDuring'
  <2>1. SUFFICES ASSUME port = "open" PROVE DownloadDuring'
    BY <1>1 DEF DownloadDuring, Download!workerVars
  <2>2. /\ pulling /\ queue = <<>> /\ saved = DownloadUpto(sent) /\ toPage = <<>>
        /\ stream = "readable"
    BY <1>1, <2>1 DEF DownloadInv, DownloadDuring, DownloadComes
  <2> QED BY <1>1, <1>3, <1>4, <2>1, <2>2
             DEF DownloadInv, DownloadTypes, DownloadDuring, DownloadComes, Download!workerVars,
                 Download!Assumptions
<1> QED BY <1>1, <1>2, <1>3, <1>4, <1>5, <1>6, <1>7
           DEF DownloadInv, DownloadToThePage, DownloadBefore, DownloadAfter, DownloadFramed,
               Download!workerVars

LEMMA DownloadFrameKeeps ==
  ASSUME Download!Assumptions, DownloadInv, Download!RemoveFrame \/ Download!Fetch
           \/ Download!End PROVE DownloadInv'
<1>1. /\ UNCHANGED <<page, fetching, sent, toWorker, toPage, port, stream, queue, pulling,
                     timer,
                      terminated, saved>>
      /\ offered' = offered \/ offered' = FALSE
  BY DEF Download!RemoveFrame, Download!Fetch, Download!End, Download!pageVars,
         Download!workerVars
<1>2. /\ frame' \in {"none", "asked", "saving", "expired", "complete", "broken", "quit"}
      /\ frame' \in {"none", "asked", "expired"} => saved = <<>>
      /\ frame' = "complete" => stream = "closed"
      /\ frame' = "broken" => stream = "errored"
      /\ frame' = "quit" => stream \in {"closed", "errored"}
      /\ frame = "none" => frame' = "none"
  BY DEF Download!RemoveFrame, Download!Fetch, Download!End, DownloadInv, DownloadFramed
<1>3. DownloadTypes'
  BY <1>1, <1>2 DEF DownloadInv, DownloadTypes
<1>4. DownloadToThePage'
  BY <1>1, <1>2 DEF DownloadInv, DownloadToThePage
<1> QED BY <1>1, <1>2, <1>3, <1>4
           DEF DownloadInv, DownloadToTheWorker, DownloadBefore, DownloadDuring, DownloadAfter,
               DownloadFramed, DownloadComes

\* A message that the worker takes was the first of those on their way.
LEMMA DownloadWorkerTakes ==
  ASSUME Download!Assumptions, DownloadInv, toWorker # <<>>, toWorker' = Tail(toWorker)
  PROVE  /\ toWorker' \in Seq(Download!Message)
         /\ Len(toWorker') = Len(toWorker) - 1 /\ Len(toWorker) <= 2
         /\ toWorker' # <<>> => /\ Len(toWorker') = 1 /\ toWorker'[1].type = "error"
                               /\ page # "waiting"
<1>1. toWorker \in Seq(Download!Message) /\ Len(toWorker) \in 1..2
  <2>1. toWorker \in Seq(Download!Message) /\ Len(toWorker) <= 2
    BY DEF DownloadInv, DownloadToTheWorker
  <2> QED BY <2>1, DownloadShort, Zenon
<1>2. toWorker' \in Seq(Download!Message) /\ Len(toWorker') = Len(toWorker) - 1
  BY <1>1
<1>3. ASSUME toWorker' # <<>>
      PROVE  Len(toWorker') = 1 /\ toWorker'[1].type = "error" /\ page # "waiting"
  <2>1. Len(toWorker) = 2 /\ Len(toWorker') = 1
    BY <1>1, <1>2, <1>3
  <2>2. toWorker'[1] = toWorker[2]
    BY <1>1, <2>1, DownloadSecondOfTwo
  <2>3. \A i \in {1, 2} : i = 2 => toWorker[i].type = "error" /\ page # "waiting"
    <3>1. 2 \in 1..Len(toWorker)
      BY <2>1
    <3> QED BY <3>1 DEF DownloadInv, DownloadToTheWorker
  <2> QED BY <2>1, <2>2, <2>3
<1> QED BY <1>1, <1>2, <1>3

LEMMA DownloadOfferKeeps ==
  ASSUME Download!Assumptions, DownloadInv, Download!Offer
  PROVE  DownloadInv'
<1>1. /\ toWorker # <<>> /\ toWorker[1].type = "download" /\ toWorker' = Tail(toWorker)
      /\ port' = "open" /\ offered' = TRUE /\ timer' = TRUE
      /\ stream' = "readable" /\ pulling' = TRUE
      /\ toPage' = IF page = "waiting" THEN toPage \o <<"ready", "pull">> ELSE <<>>
      /\ UNCHANGED <<page, fetching, sent, queue, terminated, frame, saved>>
  BY DEF Download!Offer, Download!pageVars, Download!frameVars
<1>2. port = "none"
  BY <1>1 DEF DownloadInv, DownloadTypes, DownloadDuring, DownloadAfter
<1>3. /\ page # "starting" /\ toPage = <<>> /\ ~fetching /\ sent = 0 /\ saved = <<>>
      /\ queue = <<>> /\ frame = "none"
  BY <1>1, <1>2 DEF DownloadInv, DownloadToTheWorker, DownloadBefore
<1>4. /\ page = "waiting" => toPage' = <<"ready", "pull">>
      /\ page # "waiting" => toPage' = <<>>
  BY <1>1, <1>3
<1>5. DownloadTypes'
  BY <1>1 DEF DownloadInv, DownloadTypes
<1>6. DownloadToTheWorker'
  BY <1>1, <1>3, DownloadWorkerTakes DEF DownloadInv, DownloadToTheWorker
<1>7. DownloadToThePage'
  <2>1. CASE page = "waiting"
    BY <1>1, <1>3, <1>4, <2>1 DEF DownloadToThePage
  <2>2. CASE page # "waiting"
    <3>1. page # "done"
      BY <1>2 DEF DownloadInv, DownloadToThePage, DownloadBefore
    <3> QED BY <1>1, <1>3, <1>4, <2>2, <3>1 DEF DownloadToThePage
  <2> QED BY <2>1, <2>2
<1>8. DownloadDuring'
  BY <1>1, <1>3, <1>4, DownloadWorkerTakes, DownloadUptoNone DEF DownloadDuring, DownloadComes
<1> QED BY <1>1, <1>3, <1>5, <1>6, <1>7, <1>8
           DEF DownloadInv, DownloadBefore, DownloadAfter, DownloadFramed

LEMMA DownloadEnqueueKeeps ==
  ASSUME Download!Assumptions, DownloadInv, Download!Enqueue
  PROVE  DownloadInv'
<1>1. /\ port = "open" /\ toWorker # <<>> /\ toWorker[1].type = "chunk"
      /\ queue' = Append(queue, toWorker[1].chunk) /\ toWorker' = Tail(toWorker)
      /\ pulling' = FALSE /\ timer' = TRUE
      /\ UNCHANGED <<page, fetching, sent, toPage, port, offered, stream, terminated, frame,
                     saved>>
  BY DEF Download!Enqueue, Download!pageVars, Download!frameVars
<1>2. /\ queue' = <<sent>> /\ sent > 0 /\ saved = DownloadUpto(sent - 1) /\ toPage = <<>>
      /\ ~fetching
      /\ stream = "readable"
  BY <1>1 DEF DownloadInv, DownloadDuring, DownloadComes
<1>3. DownloadTypes'
  BY <1>1 DEF DownloadInv, DownloadTypes
<1>4. DownloadToTheWorker'
  BY <1>1, DownloadWorkerTakes DEF DownloadInv, DownloadToTheWorker
<1>5. DownloadDuring'
  BY <1>1, <1>2, DownloadWorkerTakes DEF DownloadDuring, DownloadComes
<1> QED BY <1>1, <1>3, <1>4, <1>5
           DEF DownloadInv, DownloadToThePage, DownloadBefore, DownloadAfter, DownloadFramed

\* Whatever the worker tells when it cleans up, and however the stream ends: not for a frame
\* that has ended.
LEMMA DownloadCleanupKeeps ==
  ASSUME Download!Assumptions, DownloadInv, port = "open", Download!Cleanup, queue' = <<>>,
         (stream' = "closed" /\ DownloadComes("done")) \/ stream' = "errored",
         UNCHANGED <<page, fetching, sent, saved>>, terminated' \in BOOLEAN,
         NEW m \in {"finished", "cancel"}, m = "finished" => stream' = "closed",
         Download!ToPage(m) \/ UNCHANGED toPage,
         frame' = frame \/ (frame = "saving" /\ frame' = "quit")
  PROVE  DownloadInv'
<1>1. /\ offered' = FALSE /\ timer' = FALSE /\ pulling' = FALSE /\ port' = "closed"
      /\ toWorker' = <<>>
  BY DEF Download!Cleanup
<1>2. DownloadTypes'
  BY <1>1 DEF DownloadInv, DownloadTypes
<1>3. DownloadToTheWorker'
  BY <1>1 DEF DownloadToTheWorker, DownloadInv
<1>4. stream = "readable" /\ page # "done" /\ Len(toPage) <= 2
      /\ \A i \in 1..Len(toPage) : toPage[i] \in {"ready", "pull"}
  BY DEF DownloadInv, DownloadToThePage, DownloadDuring
<1>5. DownloadToThePage'
  <2>1. CASE UNCHANGED toPage
    <3>1. \A i \in 1..Len(toPage) : toPage[i] = "ready" => frame' = "none"
      BY <1>4 DEF DownloadInv, DownloadToThePage
    <3> QED BY <1>4, <2>1, <3>1 DEF DownloadInv, DownloadToThePage
  <2>2. CASE Download!ToPage(m) /\ page = "waiting"
    BY <1>4, <2>2 DEF DownloadInv, DownloadToThePage, Download!ToPage
  <2>3. CASE Download!ToPage(m) /\ page # "waiting"
    BY <1>4, <2>3 DEF DownloadInv, DownloadToThePage, Download!ToPage
  <2> QED BY <2>1, <2>2, <2>3
<1>6. DownloadAfter'
  <2>1. saved \in Seq(1..Chunks) /\ Len(saved) <= Chunks
    BY DownloadInvTyped DEF Download!TypeOK
  <2>2. stream' = "closed" => saved = DownloadUpto(Chunks)
    BY DEF DownloadInv, DownloadDuring, DownloadComes
  <2> QED BY <1>1, <2>1, <2>2 DEF DownloadAfter
<1> QED BY <1>1, <1>2, <1>3, <1>4, <1>5, <1>6
           DEF DownloadInv, DownloadBefore, DownloadDuring, DownloadFramed

LEMMA DownloadEndsKeep ==
  ASSUME Download!Assumptions, DownloadInv, Download!Done \/ Download!Interrupted
           \/ Download!TimeOut \/ Download!Terminate PROVE DownloadInv'
<1>1. CASE Download!Done
  <2>1. DownloadComes("done") /\ queue = <<>>
    BY <1>1 DEF Download!Done, DownloadComes, DownloadInv, DownloadDuring
  <2> QED BY <1>1, <2>1, DownloadCleanupKeeps
             DEF Download!Done, Download!pageVars, Download!frameVars, DownloadInv,
                 DownloadTypes
<1>2. CASE Download!Interrupted
  BY <1>2, DownloadCleanupKeeps
     DEF Download!Interrupted, Download!pageVars, Download!frameVars, DownloadInv, DownloadTypes
<1>3. CASE Download!TimeOut
  <2>1. port = "open"
    BY <1>3 DEF Download!TimeOut, DownloadInv, DownloadTypes, DownloadBefore, DownloadAfter
  <2> QED BY <1>3, <2>1, DownloadCleanupKeeps
             DEF Download!TimeOut, Download!pageVars, Download!frameVars, DownloadInv,
                 DownloadTypes
<1>4. CASE Download!Terminate
  BY <1>4, DownloadCleanupKeeps DEF Download!Terminate, Download!pageVars, Download!frameVars
<1> QED BY <1>1, <1>2, <1>3, <1>4

LEMMA DownloadTakeKeeps ==
  ASSUME Download!Assumptions, DownloadInv, Download!Take
  PROVE  DownloadInv'
<1>1. /\ frame = "saving" /\ queue # <<>> /\ saved' = Append(saved, Head(queue))
      /\ queue' = Tail(queue)
      /\ UNCHANGED <<page, fetching, sent, toWorker, port, offered, stream, terminated, frame>>
  BY DEF Download!Take, Download!pageVars
<1>2. /\ port = "open" /\ ~pulling /\ stream = "readable"
      /\ queue = <<sent>> /\ sent > 0 /\ saved = DownloadUpto(sent - 1) /\ toPage = <<>>
      /\ ~fetching
      /\ ~DownloadComes("chunk") /\ ~DownloadComes("done")
  BY <1>1 DEF DownloadInv, DownloadTypes, DownloadBefore, DownloadDuring, DownloadAfter
<1>3. pulling' = TRUE /\ timer' = TRUE /\ Download!ToPage("pull")
  BY <1>2 DEF Download!Take
<1>4. queue' = <<>> /\ saved' = DownloadUpto(sent)
  <2>1. sent - 1 \in Nat /\ (sent - 1) + 1 = sent
    BY <1>2 DEF DownloadInv, DownloadTypes, Download!Assumptions
  <2>2. saved' = Append(DownloadUpto(sent - 1), (sent - 1) + 1) /\ queue' = <<>>
    BY <1>1, <1>2, <2>1
  <2> QED BY <2>1, <2>2, DownloadUptoNext
<1>5. /\ page = "waiting" => toPage' = <<"pull">>
      /\ page # "waiting" => toPage' = <<>>
  BY <1>2, <1>3 DEF Download!ToPage
<1>6. DownloadTypes'
  BY <1>1, <1>3 DEF DownloadInv, DownloadTypes
<1>7. DownloadToThePage'
  <2>1. page # "done"
    BY <1>2 DEF DownloadInv, DownloadToThePage
  <2>2. CASE page = "waiting"
    <3>1. toPage' = <<"pull">> /\ page' = "waiting"
      BY <1>1, <1>5, <2>2
    <3>2. toPage' \in Seq({"ready", "pull", "finished", "cancel"}) /\ Len(toPage') <= 3
      BY <3>1
    <3>3. \A i \in 1..Len(toPage') : toPage'[i] = "pull"
      BY <3>1
    <3> QED BY <3>1, <3>2, <3>3 DEF DownloadToThePage
  <2>3. CASE page # "waiting"
    BY <1>1, <1>2, <1>5, <2>1, <2>3 DEF DownloadToThePage
  <2> QED BY <2>2, <2>3
<1>8. DownloadDuring'
  <2>1. toPage' # <<>> => toWorker = <<>>
    <3>1. toWorker # <<>> => toWorker[1].type = "error"
      BY <1>2 DEF DownloadInv, DownloadDuring, DownloadComes
    <3> QED BY <1>5, <3>1 DEF DownloadInv, DownloadToTheWorker
  <2>2. toPage' # <<>> => /\ toPage'[Len(toPage')] = "pull"
                          /\ \A i \in 1..(Len(toPage') - 1) : toPage'[i] = "ready"
    BY <1>5
  <2>3. toWorker # <<>> => toWorker[1].type \in {"chunk", "done", "error"}
    BY <1>2 DEF DownloadInv, DownloadDuring
  <2>4. DownloadComes("chunk")' = FALSE /\ DownloadComes("done")' = FALSE
    BY <1>1, <1>2 DEF DownloadComes
  <2> QED BY <1>1, <1>2, <1>3, <1>4, <2>1, <2>2, <2>3, <2>4 DEF DownloadDuring
<1> QED BY <1>1, <1>2, <1>6, <1>7, <1>8
           DEF DownloadInv, DownloadToTheWorker, DownloadBefore, DownloadAfter, DownloadFramed

LEMMA DownloadQuitKeeps ==
  ASSUME Download!Assumptions, DownloadInv, Download!Quit
  PROVE  DownloadInv'
<1>1. CASE stream = "readable"
  <2>1. port = "open"
    BY <1>1 DEF DownloadInv, DownloadTypes, DownloadBefore, DownloadAfter
  <2> QED BY <1>1, <2>1, DownloadCleanupKeeps
             DEF Download!Quit, Download!pageVars, DownloadInv, DownloadTypes
<1>2. CASE stream # "readable"
  <2>1. port = "closed" /\ queue = <<>>
    BY <1>2
       DEF Download!Quit, DownloadInv, DownloadTypes, DownloadBefore, DownloadDuring,
           DownloadAfter
  <2> QED BY <1>2, <2>1
             DEF Download!Quit, Download!pageVars, DownloadInv, DownloadTypes,
                 DownloadToTheWorker, DownloadToThePage, DownloadBefore, DownloadDuring,
                 DownloadAfter, DownloadFramed
<1> QED BY <1>1, <1>2

LEMMA DownloadNextKeeps ==
  ASSUME Download!Assumptions, DownloadInv, [Download!Next]_(Download!vars)
  PROVE  DownloadInv'
<1>1. CASE UNCHANGED Download!vars
  BY <1>1
     DEF Download!vars, Download!pageVars, Download!workerVars, Download!frameVars, DownloadInv,
         DownloadTypes, DownloadToTheWorker, DownloadToThePage, DownloadBefore, DownloadDuring,
         DownloadAfter, DownloadFramed, DownloadComes
<1>2. CASE Download!Next
  BY <1>2, DownloadBeginKeeps, DownloadPageGoesKeeps, DownloadFinishedKeeps, DownloadReadyKeeps,
     DownloadPulledKeeps, DownloadReadKeeps, DownloadFrameKeeps, DownloadOfferKeeps,
     DownloadEnqueueKeeps, DownloadEndsKeep, DownloadTakeKeeps, DownloadQuitKeeps
     DEF Download!Next, Download!Page, Download!Worker
<1> QED BY <1>1, <1>2

-----------------------------------------------------------------------------
(* Sums over finite sets *)

\* Among the subsets of a finite set with some property one is minimal.
LEMMA MinimalSet ==
  ASSUME NEW S, IsFiniteSet(S), NEW Bad \in SUBSET (SUBSET S), Bad # {}
  PROVE  \E s \in Bad : \A t \in SUBSET s : t # s => t \notin Bad
<1> DEFINE R == StrictSubsetOrdering(S)
<1>1. IsWellFoundedOn(R, SUBSET S)
  BY FS_StrictSubsetOrderingWellFounded, FS_FiniteSubsetsOfFinite
<1> HIDE DEF R
<1>2. PICK s \in Bad : \A t \in Bad : ~ (<<t, s>> \in R)
  BY <1>1, WFMin
<1>3. ASSUME NEW t \in SUBSET s, t # s, t \in Bad PROVE FALSE
  BY <1>2, <1>3 DEF R, StrictSubsetOrdering
<1> QED BY <1>2, <1>3

\* The function that the sum is defined with.
First(s)      == CHOOSE x \in s : TRUE
Body(f, g, s) == IF s = {} THEN 0 ELSE f[First(s)] + g[s \ {First(s)}]
Adds(f, D, g) == g = [s \in D |-> Body(f, g, s)]
Layer(S, n)   == {s \in SUBSET S : Cardinality(s) <= n}

LEMMA LayersAdd ==
  ASSUME NEW f, NEW S, IsFiniteSet(S)
  PROVE  \A n \in Nat : \E g : Adds(f, Layer(S, n), g)
<1> DEFINE Bad == {n \in Nat : ~ \E g : Adds(f, Layer(S, n), g)}
<1> SUFFICES ASSUME Bad # {} PROVE FALSE
  OBVIOUS
<1>1. PICK n \in Bad : \A m \in Bad : n <= m
  BY LeastNumber
<1>2. n \in Nat /\ ~ \E g : Adds(f, Layer(S, n), g)
  BY <1>1
<1>3. CASE n = 0
  <2>1. ASSUME NEW s \in Layer(S, 0) PROVE s = {}
    <3>1. IsFiniteSet(s) /\ Cardinality(s) <= 0
      BY FS_Subset DEF Layer
    <3>2. Cardinality(s) \in Nat
      BY <3>1, FS_CardinalityType
    <3> QED BY <3>1, <3>2, FS_EmptySet
  <2> DEFINE g == [s \in Layer(S, 0) |-> 0]
  <2>2. Adds(f, Layer(S, 0), g)
    BY <2>1 DEF Adds, Body
  <2> QED BY <1>2, <1>3, <2>2
<1>4. CASE n # 0
  <2>1. n - 1 \in Nat /\ n - 1 \notin Bad
    BY <1>1, <1>2, <1>4
  <2>2. PICK g : Adds(f, Layer(S, n - 1), g)
    BY <2>1
  <2> DEFINE h == [s \in Layer(S, n) |-> Body(f, g, s)]
  <2>3. ASSUME NEW s \in Layer(S, n) PROVE Body(f, g, s) = Body(f, h, s)
    <3>1. CASE s = {}
      BY <3>1 DEF Body
    <3>2. CASE s # {}
      <4> DEFINE t == s \ {First(s)}
      <4>1. First(s) \in s
        BY <3>2 DEF First
      <4>2. IsFiniteSet(s) /\ Cardinality(s) \in Nat /\ Cardinality(s) <= n
        BY FS_Subset, FS_CardinalityType DEF Layer
      <4>3. t \in SUBSET S /\ Cardinality(t) = Cardinality(s) - 1
        BY <4>1, <4>2, FS_RemoveElement DEF Layer
      <4>4. t \in Layer(S, n - 1) /\ t \in Layer(S, n)
        BY <1>2, <4>2, <4>3 DEF Layer
      <4>5. g[t] = Body(f, g, t)
        BY <2>2, <4>4 DEF Adds
      <4>6. h[t] = Body(f, g, t)
        BY <4>4
      <4> QED BY <3>2, <4>5, <4>6 DEF Body
    <3> QED BY <3>1, <3>2
  <2>4. h = [s \in Layer(S, n) |-> Body(f, h, s)]
    BY <2>3
  <2> HIDE DEF h
  <2>5. Adds(f, Layer(S, n), h)
    BY <2>4 DEF Adds
  <2> QED BY <1>2, <2>5
<1> QED BY <1>3, <1>4

LEMMA SubsetsAdd ==
  ASSUME NEW f, NEW S, IsFiniteSet(S)
  PROVE  \E g : Adds(f, SUBSET S, g)
<1>1. Cardinality(S) \in Nat
  BY FS_CardinalityType
<1>2. Layer(S, Cardinality(S)) = SUBSET S
  BY FS_Subset DEF Layer
<1>3. \E g : Adds(f, Layer(S, Cardinality(S)), g)
  BY <1>1, LayersAdd
<1> QED BY <1>2, <1>3

\* The sum of f over S, as the library defines it.
Total(f, S)  == Ledger!SumFunctionOnSet(f, S)
Totals(f, S) == CHOOSE g : Adds(f, SUBSET S, g)

LEMMA TotalIs ==
  ASSUME NEW f, NEW S, IsFiniteSet(S)
  PROVE  Total(f, S) = Totals(f, S)[S] /\ Adds(f, SUBSET S, Totals(f, S))
<1>1. Total(f, S) = Totals(f, S)[S]
  BY DEF Total, Ledger!SumFunctionOnSet, Ledger!FoldFunctionOnSet, Ledger!MapThenFoldSet,
         Totals, Adds, Body, First
<1> QED BY <1>1, SubsetsAdd DEF Totals

LEMMA TotalsAgree ==
  ASSUME NEW f, NEW S, IsFiniteSet(S), NEW T \in SUBSET S
  PROVE  Totals(f, S)[T] = Total(f, T)
<1> DEFINE g == Totals(f, S)
           h == Totals(f, T)
           Bad == {s \in SUBSET T : g[s] # h[s]}
<1>1. IsFiniteSet(T)
  BY FS_Subset
<1>2. Adds(f, SUBSET S, g) /\ Adds(f, SUBSET T, h) /\ Total(f, T) = h[T]
  BY <1>1, TotalIs
<1> HIDE DEF g, h
<1>3. ASSUME Bad # {} PROVE FALSE
  <2>0. Bad \in SUBSET (SUBSET T)
    OBVIOUS
  <2> HIDE DEF Bad
  <2>1. PICK s \in Bad : \A t \in SUBSET s : t # s => t \notin Bad
    BY <1>1, <1>3, <2>0, MinimalSet
  <2> USE DEF Bad
  <2>2. s \in SUBSET T /\ s \in SUBSET S /\ g[s] # h[s]
    BY <2>1
  <2>3. g[s] = Body(f, g, s) /\ h[s] = Body(f, h, s)
    BY <1>2, <2>2 DEF Adds
  <2>4. CASE s = {}
    BY <2>2, <2>3, <2>4 DEF Body
  <2>5. CASE s # {}
    <3>1. First(s) \in s
      BY <2>5 DEF First
    <3>2. g[s \ {First(s)}] = h[s \ {First(s)}]
      BY <2>1, <2>2, <3>1
    <3> QED BY <2>2, <2>3, <2>5, <3>2 DEF Body
  <2> QED BY <2>4, <2>5
<1> QED BY <1>2, <1>3 DEF g

LEMMA TotalNone == ASSUME NEW f PROVE Total(f, {}) = 0
<1>1. IsFiniteSet({})
  BY FS_EmptySet
<1> QED BY <1>1, TotalIs DEF Adds, Body

LEMMA TotalFirst ==
  ASSUME NEW f, NEW S, IsFiniteSet(S), S # {}
  PROVE  First(S) \in S /\ Total(f, S) = f[First(S)] + Total(f, S \ {First(S)})
<1>1. First(S) \in S
  BY DEF First
<1>2. Totals(f, S)[S] = f[First(S)] + Totals(f, S)[S \ {First(S)}]
  BY TotalIs DEF Adds, Body
<1> QED BY <1>1, <1>2, TotalIs, TotalsAgree

LEMMA TotalNat ==
  ASSUME NEW S, IsFiniteSet(S), NEW f, \A x \in S : f[x] \in Nat
  PROVE  Total(f, S) \in Nat
<1> DEFINE Bad == {s \in SUBSET S : Total(f, s) \notin Nat}
<1>1. ASSUME Bad # {} PROVE FALSE
  <2>0. Bad \in SUBSET (SUBSET S)
    OBVIOUS
  <2> HIDE DEF Bad
  <2>1. PICK s \in Bad : \A t \in SUBSET s : t # s => t \notin Bad
    BY <1>1, <2>0, MinimalSet
  <2> USE DEF Bad
  <2>2. s \in SUBSET S /\ Total(f, s) \notin Nat
    BY <2>1
  <2>3. s # {}
    BY <2>2, TotalNone
  <2>4. First(s) \in s /\ Total(f, s) = f[First(s)] + Total(f, s \ {First(s)})
    BY <2>2, <2>3, TotalFirst, FS_Subset
  <2>5. Total(f, s \ {First(s)}) \in Nat
    BY <2>1, <2>2, <2>4
  <2> QED BY <2>2, <2>4, <2>5
<1> QED BY <1>1

LEMMA TotalSame ==
  ASSUME NEW S, IsFiniteSet(S), NEW f, NEW g, \A x \in S : f[x] = g[x]
  PROVE  Total(f, S) = Total(g, S)
<1> DEFINE Bad == {s \in SUBSET S : Total(f, s) # Total(g, s)}
<1>1. ASSUME Bad # {} PROVE FALSE
  <2>0. Bad \in SUBSET (SUBSET S)
    OBVIOUS
  <2> HIDE DEF Bad
  <2>1. PICK s \in Bad : \A t \in SUBSET s : t # s => t \notin Bad
    BY <1>1, <2>0, MinimalSet
  <2> USE DEF Bad
  <2>2. s \in SUBSET S /\ Total(f, s) # Total(g, s)
    BY <2>1
  <2>3. s # {}
    BY <2>2, TotalNone
  <2>4. /\ First(s) \in s /\ Total(f, s) = f[First(s)] + Total(f, s \ {First(s)})
        /\ Total(g, s) = g[First(s)] + Total(g, s \ {First(s)})
    BY <2>2, <2>3, TotalFirst, FS_Subset
  <2>5. Total(f, s \ {First(s)}) = Total(g, s \ {First(s)})
    BY <2>1, <2>2, <2>4
  <2> QED BY <2>2, <2>4, <2>5
<1> QED BY <1>1

\* It does not matter which element is taken out first.
LEMMA TotalWithout ==
  ASSUME NEW S, IsFiniteSet(S), NEW f, \A x \in S : f[x] \in Nat, NEW x \in S
  PROVE  Total(f, S) = f[x] + Total(f, S \ {x})
<1> DEFINE Bad == {s \in SUBSET S : \E y \in s : Total(f, s) # f[y] + Total(f, s \ {y})}
<1>1. ASSUME Bad # {} PROVE FALSE
  <2>0. Bad \in SUBSET (SUBSET S)
    OBVIOUS
  <2> HIDE DEF Bad
  <2>1. PICK s \in Bad : \A t \in SUBSET s : t # s => t \notin Bad
    BY <1>1, <2>0, MinimalSet
  <2> USE DEF Bad
  <2>2. PICK y \in s : Total(f, s) # f[y] + Total(f, s \ {y})
    BY <2>1
  <2> DEFINE p == First(s)
  <2>3. s \in SUBSET S /\ IsFiniteSet(s) /\ s # {}
    BY <2>1, FS_Subset
  <2>4. p \in s /\ Total(f, s) = f[p] + Total(f, s \ {p})
    BY <2>3, TotalFirst
  <2> HIDE DEF p
  <2>5. CASE y = p
    BY <2>2, <2>4, <2>5
  <2>6. CASE y # p
    <3>1. Total(f, s \ {p}) = f[y] + Total(f, (s \ {p}) \ {y})
      BY <2>1, <2>3, <2>4, <2>6
    <3>2. Total(f, s \ {y}) = f[p] + Total(f, (s \ {y}) \ {p})
      BY <2>1, <2>3, <2>4, <2>6
    <3>3. (s \ {p}) \ {y} = (s \ {y}) \ {p}
      OBVIOUS
    <3>4. IsFiniteSet((s \ {p}) \ {y}) /\ (s \ {p}) \ {y} \in SUBSET S
      BY <2>3, FS_Subset
    <3>5. f[p] \in Nat /\ f[y] \in Nat /\ Total(f, (s \ {p}) \ {y}) \in Nat
      BY <2>3, <2>4, <3>4, TotalNat
    <3>6. f[p] + (f[y] + Total(f, (s \ {p}) \ {y})) = f[y] + (f[p] + Total(f, (s \ {p}) \ {y}))
      BY <3>5
    <3> QED BY <2>2, <2>4, <3>1, <3>2, <3>3, <3>6
  <2> QED BY <2>5, <2>6
<1> QED BY <1>1

\* An element more adds its value, whatever the others are changed to be.
LEMMA TotalWith ==
  ASSUME NEW S, IsFiniteSet(S), NEW f, NEW g, NEW x, x \notin S, g[x] \in Nat,
         \A y \in S : f[y] \in Nat /\ g[y] = f[y]
  PROVE  IsFiniteSet(S \cup {x}) /\ Total(g, S \cup {x}) = g[x] + Total(f, S)
<1>1. IsFiniteSet(S \cup {x})
  BY FS_AddElement
<1>2. Total(g, S \cup {x}) = g[x] + Total(g, (S \cup {x}) \ {x})
  BY <1>1, TotalWithout
<1>3. (S \cup {x}) \ {x} = S /\ Total(f, S) = Total(g, S)
  BY TotalSame
<1> QED BY <1>1, <1>2, <1>3

\* A sum is the share of one element, if it has one, and the sum of the others.
LEMMA TotalSplit ==
  ASSUME NEW S, IsFiniteSet(S), NEW f, \A y \in S : f[y] \in Nat, NEW x
  PROVE  /\ IsFiniteSet(S \ {x}) /\ Total(f, S \ {x}) \in Nat
         /\ Total(f, S) = (IF x \in S THEN f[x] ELSE 0) + Total(f, S \ {x})
<1>1. IsFiniteSet(S \ {x})
  BY FS_Subset
<1>2. Total(f, S \ {x}) \in Nat
  BY <1>1, TotalNat
<1>3. CASE x \in S
  BY <1>1, <1>2, <1>3, TotalWithout
<1>4. CASE x \notin S
  <2>1. S \ {x} = S
    BY <1>4
  <2>2. Total(f, S \ {x}) = Total(f, S) /\ Total(f, S \ {x}) \in Nat
    BY <1>2, <2>1
  <2>3. (IF x \in S THEN f[x] ELSE 0) = 0
    BY <1>4
  <2> QED BY <1>1, <2>2, <2>3
<1> QED BY <1>3, <1>4

\* Two sums that differ in one element only have the rest in common.
LEMMA TotalsApart ==
  ASSUME NEW f, NEW g, NEW S, NEW T, NEW x, IsFiniteSet(S), IsFiniteSet(T), S \ {x} = T \ {x},
         \A y \in S : f[y] \in Nat, \A y \in T : g[y] \in Nat,
         \A y \in S : y # x => g[y] = f[y]
  PROVE  \E n \in Nat : /\ Total(f, S) = (IF x \in S THEN f[x] ELSE 0) + n
                        /\ Total(g, T) = (IF x \in T THEN g[x] ELSE 0) + n
<1>1. /\ IsFiniteSet(S \ {x}) /\ Total(f, S \ {x}) \in Nat
      /\ Total(f, S) = (IF x \in S THEN f[x] ELSE 0) + Total(f, S \ {x})
  BY TotalSplit
<1>2. /\ IsFiniteSet(T \ {x}) /\ Total(g, T \ {x}) \in Nat
      /\ Total(g, T) = (IF x \in T THEN g[x] ELSE 0) + Total(g, T \ {x})
  BY TotalSplit
<1>3. \A y \in S \ {x} : f[y] = g[y]
  OBVIOUS
<1>4. Total(f, S \ {x}) = Total(g, S \ {x})
  BY <1>1, <1>3, TotalSame
<1> QED BY <1>1, <1>2, <1>4

-----------------------------------------------------------------------------
(* The credits: CreditLedger *)

\* The database has finitely many rows at any time.
LedgerRows(s) == {c \in Calls : s[c].status # "none"}
LedgerFinite  ==
  /\ IsFiniteSet(LedgerRows(usage))
  /\ IsFiniteSet({i \in Events : grants[i] # Ledger!NoEvent})

\* A goroutine that runs has a pending row of its own, and settles by what the row says.
LedgerSettles ==
  \A c \in Calls :
    /\ calls[c].stage # "none" =>
         usage[c].status = "pending" /\ calls[c].source = usage[c].source
    /\ usage[c].status = "pending" => usage[c].user \in Payers
    /\ calls[c].status = "failed" => calls[c].used = 0

LedgerInv == Ledger!TypeOK /\ LedgerFinite /\ LedgerSettles /\ Ledger!Conserved

LedgerReserved == [c \in Calls |-> usage[c].reserved]
LedgerAmount   == [i \in Events |-> grants[i].amount]

\* Every sum is over finitely many rows.
LEMMA LedgerSumsFinite ==
  ASSUME Ledger!Assumptions, Ledger!TypeOK, LedgerFinite, NEW u \in Payers
  PROVE  /\ IsFiniteSet(Ledger!PendingOf(u)) /\ IsFiniteSet(Ledger!ChargedTo(u))
         /\ IsFiniteSet(Ledger!GrantsTo(u))
         /\ \A c \in Calls : LedgerReserved[c] \in Nat /\ Ledger!Cost[c] \in Nat
         /\ \A i \in Events : LedgerAmount[i] \in Nat
         /\ Ledger!Held(u) \in Nat /\ Ledger!Charged(u) \in Nat /\ Ledger!Granted(u) \in Nat
         /\ Ledger!Held(u) = Total(LedgerReserved, Ledger!PendingOf(u))
         /\ Ledger!Charged(u) = Total(Ledger!Cost, Ledger!ChargedTo(u))
         /\ Ledger!Granted(u) = Total(LedgerAmount, Ledger!GrantsTo(u))
<1>1. /\ Ledger!PendingOf(u) \subseteq LedgerRows(usage)
      /\ Ledger!ChargedTo(u) \subseteq LedgerRows(usage)
  BY DEF Ledger!PendingOf, Ledger!ChargedTo, LedgerRows
<1>2. Ledger!GrantsTo(u) \subseteq {i \in Events : grants[i] # Ledger!NoEvent}
  BY DEF Ledger!GrantsTo, Ledger!NoEvent, Ledger!Assumptions
<1>3. /\ IsFiniteSet(Ledger!PendingOf(u)) /\ IsFiniteSet(Ledger!ChargedTo(u))
      /\ IsFiniteSet(Ledger!GrantsTo(u))
  BY <1>1, <1>2, FS_Subset DEF LedgerFinite
<1>4. \A c \in Calls : LedgerReserved[c] \in Nat /\ Ledger!Cost[c] \in Nat
  <2>1. \A c \in Calls : usage[c].reserved \in Nat /\ usage[c].used \in Nat
    BY DEF Ledger!TypeOK, Ledger!Usage
  <2> QED BY <2>1 DEF LedgerReserved, Ledger!Cost, Ledger!AtMost
<1>5. \A i \in Events : LedgerAmount[i] \in Nat
  BY DEF Ledger!TypeOK, Ledger!Event, LedgerAmount
<1>6. /\ Ledger!Held(u) = Total(LedgerReserved, Ledger!PendingOf(u))
      /\ Ledger!Charged(u) = Total(Ledger!Cost, Ledger!ChargedTo(u))
      /\ Ledger!Granted(u) = Total(LedgerAmount, Ledger!GrantsTo(u))
  BY DEF Ledger!Held, Ledger!Charged, Ledger!Granted, Total, LedgerReserved, LedgerAmount
<1>7. /\ Ledger!PendingOf(u) \subseteq Calls /\ Ledger!ChargedTo(u) \subseteq Calls
      /\ Ledger!GrantsTo(u) \subseteq Events
  BY DEF Ledger!PendingOf, Ledger!ChargedTo, Ledger!GrantsTo
<1>8. Total(LedgerReserved, Ledger!PendingOf(u)) \in Nat
  BY <1>3, <1>4, <1>7, TotalNat
<1>9. Total(Ledger!Cost, Ledger!ChargedTo(u)) \in Nat
  BY <1>3, <1>4, <1>7, TotalNat
<1>10. Total(LedgerAmount, Ledger!GrantsTo(u)) \in Nat
  BY <1>3, <1>5, <1>7, TotalNat
<1> QED BY <1>3, <1>4, <1>5, <1>6, <1>8, <1>9, <1>10

\* The sums of a state whose rows are the same are the same.
LEMMA LedgerSumsStay ==
  ASSUME NEW u
  PROVE  /\ usage' = usage => Ledger!Held(u)' = Ledger!Held(u)
              /\ Ledger!Charged(u)' = Ledger!Charged(u)
         /\ grants' = grants => Ledger!Granted(u)' = Ledger!Granted(u)
BY DEF Ledger!Held, Ledger!Charged, Ledger!Granted, Ledger!PendingOf, Ledger!ChargedTo,
       Ledger!GrantsTo, Ledger!Cost

LEMMA LedgerInitHolds == ASSUME Ledger!Assumptions, Ledger!Init PROVE LedgerInv
<1>1. /\ Ledger!NoUsage \in Ledger!Usage /\ Ledger!NoEvent \in Ledger!Event
      /\ Ledger!NoRun \in Ledger!Run
  BY DEF Ledger!NoUsage, Ledger!NoEvent, Ledger!NoRun, Ledger!Usage, Ledger!Event, Ledger!Run,
         Ledger!Sources, Ledger!Outcomes
<1>2. Ledger!TypeOK
  BY <1>1 DEF Ledger!Init, Ledger!TypeOK, Ledger!Assumptions, Ledger!Sources
<1>3. LedgerRows(usage) = {} /\ {i \in Events : grants[i] # Ledger!NoEvent} = {}
  BY DEF Ledger!Init, LedgerRows, Ledger!NoUsage
<1>4. LedgerFinite
  BY <1>3, FS_EmptySet DEF LedgerFinite
<1>5. LedgerSettles
  BY DEF Ledger!Init, LedgerSettles, Ledger!NoRun, Ledger!NoUsage
<1>6. ASSUME NEW u \in Payers
      PROVE  balance[u] + Ledger!Held(u) + Ledger!Charged(u) = Ledger!Granted(u)
  <2>1. Ledger!PendingOf(u) = {} /\ Ledger!ChargedTo(u) = {} /\ Ledger!GrantsTo(u) = {}
    BY DEF Ledger!Init, Ledger!PendingOf, Ledger!ChargedTo, Ledger!GrantsTo, Ledger!NoUsage,
           Ledger!NoEvent, Ledger!Assumptions
  <2>2. Ledger!Held(u) = 0 /\ Ledger!Charged(u) = 0 /\ Ledger!Granted(u) = 0
    BY <1>2, <1>4, <2>1, LedgerSumsFinite, TotalNone
  <2> QED BY <2>2 DEF Ledger!Init
<1> QED BY <1>2, <1>4, <1>5, <1>6 DEF LedgerInv, Ledger!Conserved

LEMMA LedgerCreditKeeps ==
  ASSUME Ledger!Assumptions, LedgerInv, NEW i \in Events, NEW u \in Payers,
         NEW amount \in Amounts,
         Ledger!Credit(i, u, amount)
  PROVE  LedgerInv'
<1>1. CASE grants[i] # Ledger!NoEvent
  <2>1. UNCHANGED Ledger!vars
    BY <1>1 DEF Ledger!Credit, Ledger!vars
  <2> QED BY <2>1
             DEF Ledger!vars, LedgerInv, Ledger!TypeOK, LedgerFinite, LedgerSettles,
                 Ledger!Conserved, Ledger!Held, Ledger!Charged, Ledger!Granted,
                 Ledger!PendingOf, Ledger!ChargedTo, Ledger!GrantsTo, Ledger!Cost, LedgerRows
<1>2. CASE grants[i] = Ledger!NoEvent
  <2>1. /\ grants' = [grants EXCEPT ![i] = [user |-> u, amount |-> amount]]
        /\ balance' = [balance EXCEPT ![u] = @ + amount]
        /\ UNCHANGED <<source, usage, calls, recoveries>>
    BY <1>2 DEF Ledger!Credit
  <2>2. amount \in Nat /\ balance \in [Payers -> Nat] /\ grants \in [Events -> Ledger!Event]
    BY DEF Ledger!Assumptions, LedgerInv, Ledger!TypeOK
  <2>3. Ledger!TypeOK'
    <3>1. [user |-> u, amount |-> amount] \in Ledger!Event
      BY <2>2 DEF Ledger!Event
    <3> QED BY <2>1, <2>2, <3>1 DEF LedgerInv, Ledger!TypeOK
  <2>4. LedgerFinite'
    <3> DEFINE Known == {j \in Events : grants[j] # Ledger!NoEvent}
    <3>1. Known' \subseteq Known \cup {i}
      BY <2>1, <2>2
    <3>2. IsFiniteSet(Known \cup {i})
      BY FS_AddElement DEF LedgerInv, LedgerFinite
    <3>3. IsFiniteSet(Known')
      BY <3>1, <3>2, FS_Subset
    <3> QED BY <2>1, <3>3 DEF LedgerInv, LedgerFinite, LedgerRows
  <2>5. LedgerSettles'
    BY <2>1 DEF LedgerInv, LedgerSettles
  <2>6. ASSUME NEW v \in Payers
        PROVE  (balance[v] + Ledger!Held(v) + Ledger!Charged(v) = Ledger!Granted(v))'
    <3>1. /\ balance[v] \in Nat
          /\ balance[v] + Ledger!Held(v) + Ledger!Charged(v) = Ledger!Granted(v)
      BY <2>2 DEF LedgerInv, Ledger!Conserved
    <3>2. Ledger!Held(v)' = Ledger!Held(v) /\ Ledger!Charged(v)' = Ledger!Charged(v)
      BY <2>1, LedgerSumsStay
    <3>3. /\ Ledger!Held(v) \in Nat /\ Ledger!Charged(v) \in Nat /\ Ledger!Granted(v) \in Nat
          /\ IsFiniteSet(Ledger!GrantsTo(v))
          /\ Ledger!Granted(v) = Total(LedgerAmount, Ledger!GrantsTo(v))
          /\ \A j \in Events : LedgerAmount[j] \in Nat
      BY LedgerSumsFinite DEF LedgerInv
    <3>4. Ledger!Granted(v)' = Total(LedgerAmount', Ledger!GrantsTo(v)')
      BY <2>3, <2>4, LedgerSumsFinite DEF Ledger!Granted, Total, LedgerAmount
    <3>5. \A j \in Events : j # i => LedgerAmount'[j] = LedgerAmount[j]
            /\ grants'[j] = grants[j]
      BY <2>1, <2>2 DEF LedgerAmount
    <3>6. LedgerAmount'[i] = amount /\ grants'[i].user = u /\ grants[i].user = NoUser
      BY <1>2, <2>1, <2>2 DEF LedgerAmount, Ledger!NoEvent
    <3>7. CASE v = u
      <4>1. Ledger!GrantsTo(v)' = Ledger!GrantsTo(v) \cup {i} /\ i \notin Ledger!GrantsTo(v)
        BY <3>5, <3>6, <3>7 DEF Ledger!GrantsTo, Ledger!Assumptions
      <4>2. Total(LedgerAmount', Ledger!GrantsTo(v) \cup {i}) = amount
              + Total(LedgerAmount, Ledger!GrantsTo(v))
        <5>1. \A j \in Ledger!GrantsTo(v) : LedgerAmount[j] \in Nat
                /\ LedgerAmount'[j] = LedgerAmount[j]
          BY <3>3, <3>5, <4>1 DEF Ledger!GrantsTo
        <5> QED BY <2>2, <3>3, <3>6, <4>1, <5>1, TotalWith
      <4>3. balance'[v] = balance[v] + amount
        BY <2>1, <2>2, <3>7
      <4> QED BY <2>2, <3>1, <3>2, <3>3, <3>4, <4>1, <4>2, <4>3
    <3>8. CASE v # u
      <4>1. Ledger!GrantsTo(v)' = Ledger!GrantsTo(v) /\ i \notin Ledger!GrantsTo(v)
        BY <3>5, <3>6, <3>8 DEF Ledger!GrantsTo, Ledger!Assumptions
      <4>2. Total(LedgerAmount', Ledger!GrantsTo(v)) = Total(LedgerAmount, Ledger!GrantsTo(v))
        <5>1. \A j \in Ledger!GrantsTo(v) : LedgerAmount'[j] = LedgerAmount[j]
          BY <3>5, <4>1 DEF Ledger!GrantsTo
        <5> QED BY <3>3, <5>1, TotalSame
      <4>3. balance'[v] = balance[v]
        BY <2>1, <2>2, <3>8
      <4> QED BY <3>1, <3>2, <3>3, <3>4, <4>1, <4>2, <4>3
    <3> QED BY <3>7, <3>8
  <2> QED BY <2>3, <2>4, <2>5, <2>6 DEF LedgerInv, Ledger!Conserved
<1> QED BY <1>1, <1>2

\* A step that changes neither rows nor balances keeps the sums.
LEMMA LedgerSourceKeeps ==
  ASSUME Ledger!Assumptions, LedgerInv, NEW u \in Payers, Ledger!AiSettingsSave(u)
  PROVE  LedgerInv'
<1>1. /\ source' \in [Payers -> Ledger!Sources]
      /\ UNCHANGED <<balance, grants, usage, calls, recoveries>>
  BY DEF Ledger!AiSettingsSave, LedgerInv, Ledger!TypeOK
<1>2. Ledger!TypeOK' /\ LedgerFinite' /\ LedgerSettles'
  BY <1>1 DEF LedgerInv, Ledger!TypeOK, LedgerFinite, LedgerSettles, LedgerRows
<1>3. Ledger!Conserved'
  BY <1>1, LedgerSumsStay DEF LedgerInv, Ledger!Conserved
<1> QED BY <1>2, <1>3 DEF LedgerInv

LEMMA LedgerAnswerKeeps ==
  ASSUME Ledger!Assumptions, LedgerInv, NEW c \in Calls, Ledger!Answer(c)
           \/ Ledger!SettleFails(c)
  PROVE  LedgerInv'
<1>1. UNCHANGED <<balance, source, grants, usage, recoveries>>
  BY DEF Ledger!Answer, Ledger!SettleFails
<1>2. PICK r \in Ledger!Run :
        /\ calls' = [calls EXCEPT ![c] = r] /\ calls[c].stage # "none"
        /\ (r.stage # "none" => r.source = calls[c].source)
        /\ (r.status = "failed" => r.used = 0)
  <2>1. /\ calls \in [Calls -> Ledger!Run] /\ usage[c].reserved \in Nat
        /\ (calls[c].status = "failed" => calls[c].used = 0)
    BY DEF LedgerInv, Ledger!TypeOK, LedgerSettles, Ledger!Usage
  <2>2. CASE Ledger!SettleFails(c)
    <3>1. Ledger!NoRun \in Ledger!Run /\ Ledger!NoRun.stage = "none" /\ Ledger!NoRun.used = 0
      BY DEF Ledger!NoRun, Ledger!Run, Ledger!Sources, Ledger!Outcomes
    <3> QED BY <2>2, <3>1 DEF Ledger!SettleFails
  <2>3. CASE Ledger!Answer(c)
    <3>1. ASSUME NEW used \in Nat, NEW how \in {"complete", "estimated"},
                 calls' = [calls EXCEPT ![c].stage = "settling", ![c].used = used,
                                        ![c].status = how]
          PROVE  \E r \in Ledger!Run : /\ calls' = [calls EXCEPT ![c] = r]
                                       /\ r.source = calls[c].source /\ r.status # "failed"
      <4> DEFINE r == [calls[c] EXCEPT !.stage = "settling", !.used = used, !.status = how]
      <4>1. r \in Ledger!Run /\ r.source = calls[c].source /\ r.status # "failed"
        BY <2>1 DEF Ledger!Run, Ledger!Outcomes
      <4>2. calls' = [calls EXCEPT ![c] = r]
        BY <2>1, <3>1
      <4> QED BY <4>1, <4>2
    <3>2. ASSUME calls' = [calls EXCEPT ![c].stage = "settling"]
          PROVE  \E r \in Ledger!Run : /\ calls' = [calls EXCEPT ![c] = r]
                                       /\ r.source = calls[c].source
                                       /\ (r.status = "failed" => r.used = 0)
      <4> DEFINE r == [calls[c] EXCEPT !.stage = "settling"]
      <4>1. /\ r \in Ledger!Run /\ r.source = calls[c].source
            /\ (r.status = "failed" => r.used = 0)
        BY <2>1 DEF Ledger!Run
      <4>2. calls' = [calls EXCEPT ![c] = r]
        BY <2>1, <3>2
      <4> QED BY <4>1, <4>2
    <3>3. calls[c].stage # "none"
      BY <2>3 DEF Ledger!Answer
    <3>4. \/ \E used \in Nat, how \in {"complete", "estimated"} :
               calls' = [calls EXCEPT ![c].stage = "settling", ![c].used = used,
                                      ![c].status = how]
          \/ calls' = [calls EXCEPT ![c].stage = "settling"]
      <4>1. usage[c].reserved \in Nat /\ \A used \in 0..(2 * usage[c].reserved) : used \in Nat
        BY <2>1
      <4>2. CASE calls' = [calls EXCEPT ![c].stage = "settling"]
        BY <4>2
      <4>3. CASE calls' = [calls EXCEPT ![c].stage = "settling", ![c].used = usage[c].reserved,
                                        ![c].status = "estimated"]
        BY <4>1, <4>3
      <4>4. ASSUME NEW used \in 0..(2 * usage[c].reserved),
                   calls' = [calls EXCEPT ![c].stage = "settling", ![c].used = used,
                                          ![c].status = "complete"]
            PROVE  \E n \in Nat : calls' = [calls EXCEPT ![c].stage = "settling", ![c].used = n,
                                                         ![c].status = "complete"]
        <5>1. used \in Nat
          BY <4>1
        <5> QED BY <4>4, <5>1
      <4> QED BY <2>3, <4>2, <4>3, <4>4 DEF Ledger!Answer
    <3>5. \E r \in Ledger!Run : /\ calls' = [calls EXCEPT ![c] = r]
                                /\ r.source = calls[c].source
                                /\ (r.status = "failed" => r.used = 0)
      BY <3>1, <3>2, <3>4
    <3> QED BY <3>3, <3>5
  <2> QED BY <2>2, <2>3
<1>3. Ledger!TypeOK' /\ LedgerFinite'
  BY <1>1, <1>2 DEF LedgerInv, Ledger!TypeOK, LedgerFinite, LedgerRows
<1>4. LedgerSettles'
  BY <1>1, <1>2 DEF LedgerInv, Ledger!TypeOK, LedgerSettles
<1>5. Ledger!Conserved'
  BY <1>1, LedgerSumsStay DEF LedgerInv, Ledger!Conserved
<1> QED BY <1>3, <1>4, <1>5 DEF LedgerInv

\* One row changes to r: what it holds and has cost moves from one sum to the other.
LEMMA LedgerRowStep ==
  ASSUME Ledger!Assumptions, Ledger!TypeOK, LedgerFinite, NEW c \in Calls,
         NEW r \in Ledger!Usage,
         usage' = [usage EXCEPT ![c] = r], grants' = grants, Ledger!TypeOK', LedgerFinite',
         NEW u \in Payers
  PROVE  /\ Ledger!Granted(u)' = Ledger!Granted(u) /\ Ledger!Granted(u) \in Nat
         /\ Ledger!Held(u) \in Nat /\ Ledger!Charged(u) \in Nat
         /\ c \in Ledger!PendingOf(u) => LedgerReserved[c] \in Nat
              /\ LedgerReserved[c] <= Ledger!Held(u)
         /\ Ledger!Held(u)'
              = (Ledger!Held(u) - (IF c \in Ledger!PendingOf(u) THEN usage[c].reserved ELSE 0))
                         + (IF c \in Ledger!PendingOf(u)' THEN r.reserved ELSE 0)
         /\ c \notin Ledger!ChargedTo(u) =>
              Ledger!Charged(u)' = Ledger!Charged(u)
                + (IF c \in Ledger!ChargedTo(u)' THEN Ledger!AtMost(r.used, r.reserved) ELSE 0)
<1>1. /\ usage'[c] = r /\ r.reserved \in Nat /\ r.used \in Nat /\ usage[c].reserved \in Nat
      /\ \A d \in Calls : d # c => usage'[d] = usage[d]
  BY DEF Ledger!TypeOK, Ledger!Usage
<1>2. /\ Ledger!PendingOf(u)' \ {c} = Ledger!PendingOf(u) \ {c}
      /\ Ledger!ChargedTo(u)' \ {c} = Ledger!ChargedTo(u) \ {c}
  BY <1>1 DEF Ledger!PendingOf, Ledger!ChargedTo
<1>3. \A d \in Calls : d # c => LedgerReserved'[d] = LedgerReserved[d]
        /\ Ledger!Cost'[d] = Ledger!Cost[d]
  BY <1>1 DEF LedgerReserved, Ledger!Cost
<1>4. /\ LedgerReserved[c] = usage[c].reserved /\ LedgerReserved'[c] = r.reserved
      /\ Ledger!Cost'[c] = Ledger!AtMost(r.used, r.reserved)
  BY <1>1 DEF LedgerReserved, Ledger!Cost
<1>5. /\ IsFiniteSet(Ledger!PendingOf(u)) /\ IsFiniteSet(Ledger!ChargedTo(u))
      /\ Ledger!Held(u) \in Nat /\ Ledger!Charged(u) \in Nat /\ Ledger!Granted(u) \in Nat
      /\ Ledger!Held(u) = Total(LedgerReserved, Ledger!PendingOf(u))
      /\ Ledger!Charged(u) = Total(Ledger!Cost, Ledger!ChargedTo(u))
      /\ \A d \in Calls : LedgerReserved[d] \in Nat /\ Ledger!Cost[d] \in Nat
  BY LedgerSumsFinite
<1>6. Ledger!Granted(u)' = Ledger!Granted(u)
  BY LedgerSumsStay
<1>7. /\ IsFiniteSet(Ledger!PendingOf(u)') /\ IsFiniteSet(Ledger!ChargedTo(u)')
      /\ Ledger!Held(u)' = Total(LedgerReserved', Ledger!PendingOf(u)')
      /\ Ledger!Charged(u)' = Total(Ledger!Cost', Ledger!ChargedTo(u)')
      /\ \A d \in Calls : LedgerReserved'[d] \in Nat /\ Ledger!Cost'[d] \in Nat
  <2>1. /\ LedgerRows(usage)' = LedgerRows(usage') /\ IsFiniteSet(LedgerRows(usage'))
    BY DEF LedgerFinite, LedgerRows
  <2>2. /\ Ledger!PendingOf(u)' \subseteq LedgerRows(usage')
        /\ Ledger!ChargedTo(u)' \subseteq LedgerRows(usage')
    BY DEF Ledger!PendingOf, Ledger!ChargedTo, LedgerRows
  <2>3. \A d \in Calls : usage'[d].reserved \in Nat /\ usage'[d].used \in Nat
    BY DEF Ledger!TypeOK, Ledger!Usage
  <2>4. \A d \in Calls : LedgerReserved'[d] \in Nat /\ Ledger!Cost'[d] \in Nat
    BY <2>3 DEF LedgerReserved, Ledger!Cost, Ledger!AtMost
  <2> QED BY <2>1, <2>2, <2>4, FS_Subset DEF Ledger!Held, Ledger!Charged, Total, LedgerReserved
<1>8. /\ Ledger!PendingOf(u) \subseteq Calls /\ Ledger!ChargedTo(u) \subseteq Calls
      /\ Ledger!PendingOf(u)' \subseteq Calls /\ Ledger!ChargedTo(u)' \subseteq Calls
  BY DEF Ledger!PendingOf, Ledger!ChargedTo
<1>9. PICK rest \in Nat :
         /\ Ledger!Held(u) = (IF c \in Ledger!PendingOf(u) THEN usage[c].reserved ELSE 0) + rest
         /\ Ledger!Held(u)' = (IF c \in Ledger!PendingOf(u)' THEN r.reserved ELSE 0) + rest
  <2>1. \E rest \in Nat :
          /\ Total(LedgerReserved, Ledger!PendingOf(u))
               = (IF c \in Ledger!PendingOf(u) THEN LedgerReserved[c] ELSE 0) + rest
          /\ Total(LedgerReserved', Ledger!PendingOf(u)') =
               (IF c \in Ledger!PendingOf(u)' THEN LedgerReserved'[c] ELSE 0) + rest
    BY <1>2, <1>3, <1>5, <1>7, <1>8, TotalsApart
  <2> QED BY <1>4, <1>5, <1>7, <2>1
<1>10. PICK others \in Nat :
         /\ Ledger!Charged(u) = (IF c \in Ledger!ChargedTo(u) THEN Ledger!Cost[c] ELSE 0)
              + others
         /\ Ledger!Charged(u)' = others +
              (IF c \in Ledger!ChargedTo(u)' THEN Ledger!AtMost(r.used, r.reserved) ELSE 0)
  <2>1. \E others \in Nat :
          /\ Total(Ledger!Cost, Ledger!ChargedTo(u))
               = (IF c \in Ledger!ChargedTo(u) THEN Ledger!Cost[c] ELSE 0) + others
          /\ Total(Ledger!Cost', Ledger!ChargedTo(u)')
               = (IF c \in Ledger!ChargedTo(u)' THEN Ledger!Cost'[c] ELSE 0) + others
    BY <1>2, <1>3, <1>5, <1>7, <1>8, TotalsApart
  <2> QED BY <1>4, <1>5, <1>7, <2>1
<1>11. Ledger!AtMost(r.used, r.reserved) \in Nat
  BY <1>1 DEF Ledger!AtMost
<1>12. c \in Ledger!PendingOf(u) => LedgerReserved[c] \in Nat
         /\ LedgerReserved[c] <= Ledger!Held(u)
  BY <1>1, <1>4, <1>9
<1>13. Ledger!Held(u)' = (Ledger!Held(u) - (IF c \in Ledger!PendingOf(u) THEN usage[c].reserved
                                            ELSE 0))
                   + (IF c \in Ledger!PendingOf(u)' THEN r.reserved ELSE 0)
  BY <1>1, <1>9
<1>14. c \notin Ledger!ChargedTo(u) =>
         Ledger!Charged(u)' = Ledger!Charged(u)
           + (IF c \in Ledger!ChargedTo(u)' THEN Ledger!AtMost(r.used, r.reserved) ELSE 0)
  BY <1>10, <1>11
<1> QED BY <1>5, <1>6, <1>12, <1>13, <1>14

LEMMA LedgerReserveKeeps ==
  ASSUME Ledger!Assumptions, LedgerInv, NEW c \in Calls, NEW u \in Payers,
         NEW reserve \in Reserves,
         Ledger!Reserve(c, u, reserve)
  PROVE  LedgerInv'
<1> DEFINE r == [user |-> u, source |-> source[u], reserved |-> reserve, used |-> 0,
                 status |-> "pending"]
<1>1. /\ usage[c].status = "none" /\ usage' = [usage EXCEPT ![c] = r]
      /\ calls' = [calls EXCEPT ![c] = [Ledger!NoRun EXCEPT !.stage = "calling",
                                        !.source = source[u]]]
      /\ UNCHANGED <<source, grants, recoveries>>
  BY DEF Ledger!Reserve
<1>2. /\ reserve \in Nat /\ source[u] \in Ledger!Sources /\ balance \in [Payers -> Nat]
      /\ r \in Ledger!Usage
      /\ balance' \in [Payers -> Nat]
      /\ \A v \in Payers : balance[v] = balance'[v] +
           (IF v = u /\ source[u] = "subscription" THEN reserve ELSE 0)
  <2>1. /\ reserve \in Nat /\ source[u] \in Ledger!Sources /\ balance \in [Payers -> Nat]
    BY DEF Ledger!Assumptions, LedgerInv, Ledger!TypeOK
  <2>2. r \in Ledger!Usage
    BY <2>1 DEF Ledger!Usage
  <2>3. CASE source[u] = "subscription"
    <3>1. balance[u] >= reserve /\ balance' = [balance EXCEPT ![u] = @ - reserve]
      BY <2>3 DEF Ledger!Reserve
    <3>2. balance[u] \in Nat /\ balance[u] - reserve \in Nat
      BY <2>1, <3>1
    <3> QED BY <2>1, <2>2, <2>3, <3>1, <3>2
  <2>4. CASE source[u] # "subscription"
    BY <2>1, <2>2, <2>4 DEF Ledger!Reserve
  <2> QED BY <2>3, <2>4
<1>3. Ledger!TypeOK'
  <2>1. [Ledger!NoRun EXCEPT !.stage = "calling", !.source = source[u]] \in Ledger!Run
    BY <1>2 DEF Ledger!NoRun, Ledger!Run, Ledger!Outcomes
  <2> QED BY <1>1, <1>2, <2>1 DEF LedgerInv, Ledger!TypeOK
<1>4. usage'[c] = r /\ \A d \in Calls : d # c => usage'[d] = usage[d]
  BY <1>1 DEF LedgerInv, Ledger!TypeOK
<1>5. LedgerFinite'
  <2>1. LedgerRows(usage)' \subseteq LedgerRows(usage) \cup {c}
    BY <1>4 DEF LedgerRows
  <2>2. IsFiniteSet(LedgerRows(usage) \cup {c})
    BY FS_AddElement DEF LedgerInv, LedgerFinite
  <2>3. IsFiniteSet(LedgerRows(usage)')
    BY <2>1, <2>2, FS_Subset
  <2> QED BY <1>1, <2>3 DEF LedgerInv, LedgerFinite
<1>6. LedgerSettles'
  BY <1>1, <1>4 DEF LedgerInv, Ledger!TypeOK, LedgerSettles, Ledger!NoRun
<1>7. ASSUME NEW v \in Payers
      PROVE  (balance[v] + Ledger!Held(v) + Ledger!Charged(v) = Ledger!Granted(v))'
  <2>1. /\ c \notin Ledger!PendingOf(v) /\ c \notin Ledger!ChargedTo(v)
        /\ c \notin Ledger!ChargedTo(v)'
        /\ (c \in Ledger!PendingOf(v)' <=> v = u /\ source[u] = "subscription")
    BY <1>1, <1>4 DEF Ledger!PendingOf, Ledger!ChargedTo
  <2>2. balance[v] + Ledger!Held(v) + Ledger!Charged(v) = Ledger!Granted(v)
    BY DEF LedgerInv, Ledger!Conserved
  <2>0. r.reserved = reserve
    OBVIOUS
  <2> HIDE DEF r
  <2>3. /\ Ledger!Granted(v)' = Ledger!Granted(v) /\ Ledger!Granted(v) \in Nat
        /\ Ledger!Held(v) \in Nat
        /\ Ledger!Charged(v) \in Nat /\ Ledger!Charged(v)' = Ledger!Charged(v)
        /\ Ledger!Held(v)' = Ledger!Held(v)
             + (IF c \in Ledger!PendingOf(v)' THEN reserve ELSE 0)
    <3>1. /\ Ledger!Granted(v)' = Ledger!Granted(v) /\ Ledger!Granted(v) \in Nat
          /\ Ledger!Held(v) \in Nat /\ Ledger!Charged(v) \in Nat
          /\ Ledger!Held(v)'
               = (Ledger!Held(v) - (IF c \in Ledger!PendingOf(v) THEN usage[c].reserved ELSE 0))
                         + (IF c \in Ledger!PendingOf(v)' THEN r.reserved ELSE 0)
          /\ (c \notin Ledger!ChargedTo(v) =>
                Ledger!Charged(v)' = Ledger!Charged(v)
                  + (IF c \in Ledger!ChargedTo(v)' THEN Ledger!AtMost(r.used, r.reserved)
                     ELSE 0))
      BY <1>1, <1>2, <1>3, <1>5, LedgerRowStep DEF LedgerInv
    <3> QED BY <1>2, <2>0, <2>1, <3>1
  <2> QED BY <1>2, <2>1, <2>2, <2>3
<1> QED BY <1>3, <1>5, <1>6, <1>7 DEF LedgerInv, Ledger!Conserved

LEMMA LedgerSettleKeeps ==
  ASSUME Ledger!Assumptions, LedgerInv, NEW c \in Calls, Ledger!Settle(c)
  PROVE  LedgerInv'
<1> DEFINE u == usage[c].user
           r == [usage[c] EXCEPT !.status = calls[c].status, !.used = calls[c].used]
           back == usage[c].reserved - Ledger!AtMost(calls[c].used, usage[c].reserved)
<1>1. /\ usage \in [Calls -> Ledger!Usage] /\ calls[c] \in Ledger!Run
      /\ usage[c] \in Ledger!Usage
      /\ usage[c].status = "pending" /\ u \in Payers /\ calls[c].source = usage[c].source
      /\ (calls[c].status = "failed" => calls[c].used = 0) /\ balance \in [Payers -> Nat]
  BY DEF Ledger!Settle, LedgerInv, Ledger!TypeOK, LedgerSettles
<1>2. /\ usage' = [usage EXCEPT ![c] = r] /\ calls' = [calls EXCEPT ![c] = Ledger!NoRun]
      /\ UNCHANGED <<source, grants, recoveries>>
  BY <1>1 DEF Ledger!Settle
<1>3. /\ usage[c].reserved \in Nat /\ calls[c].used \in Nat /\ r \in Ledger!Usage
      /\ calls[c].status \in Ledger!Outcomes /\ r.reserved = usage[c].reserved
      /\ r.user = u /\ r.source = usage[c].source
      /\ r.used = calls[c].used /\ r.status = calls[c].status
  BY <1>1 DEF Ledger!Usage, Ledger!Run
<1>4. /\ back \in Nat /\ Ledger!AtMost(calls[c].used, usage[c].reserved) \in Nat
      /\ back + Ledger!AtMost(calls[c].used, usage[c].reserved) = usage[c].reserved
      /\ (calls[c].status = "failed" => Ledger!AtMost(calls[c].used, usage[c].reserved) = 0)
  BY <1>1, <1>3 DEF Ledger!AtMost
<1>5. /\ balance' \in [Payers -> Nat]
      /\ \A v \in Payers : balance'[v] = balance[v] +
           (IF v = u /\ usage[c].source = "subscription" THEN back ELSE 0)
  <2>1. balance' = IF usage[c].source = "subscription"
                   THEN [balance EXCEPT ![u] = @ + back] ELSE balance
    BY <1>1 DEF Ledger!Settle
  <2> HIDE DEF u, back
  <2> QED BY <1>1, <1>4, <2>1
<1>6. Ledger!NoRun \in Ledger!Run
  BY DEF Ledger!NoRun, Ledger!Run, Ledger!Sources, Ledger!Outcomes
<1>7. Ledger!TypeOK'
  BY <1>2, <1>3, <1>5, <1>6 DEF LedgerInv, Ledger!TypeOK
<1>8. usage'[c] = r /\ \A d \in Calls : d # c => usage'[d] = usage[d]
  BY <1>1, <1>2
<1>9. LedgerFinite'
  <2>1. LedgerRows(usage)' \subseteq LedgerRows(usage)
    BY <1>1, <1>8 DEF LedgerRows
  <2>2. IsFiniteSet(LedgerRows(usage)')
    BY <2>1, FS_Subset DEF LedgerInv, LedgerFinite
  <2> QED BY <1>2, <2>2 DEF LedgerInv, LedgerFinite
<1>10. LedgerSettles'
  BY <1>2, <1>3, <1>8 DEF LedgerInv, Ledger!TypeOK, LedgerSettles, Ledger!NoRun, Ledger!Outcomes
<1>11. ASSUME NEW v \in Payers
       PROVE  (balance[v] + Ledger!Held(v) + Ledger!Charged(v) = Ledger!Granted(v))'
  <2> DEFINE mine == v = u /\ usage[c].source = "subscription"
  <2>1. /\ (c \in Ledger!PendingOf(v) <=> mine) /\ c \notin Ledger!PendingOf(v)'
        /\ c \notin Ledger!ChargedTo(v)
        /\ (c \in Ledger!ChargedTo(v)' <=> mine /\ calls[c].status # "failed")
    <3> HIDE DEF r
    <3>1. /\ usage'[c].user = u /\ usage'[c].source = usage[c].source
          /\ usage'[c].status = calls[c].status
      BY <1>3, <1>8
    <3>2. calls[c].status \in {"complete", "estimated", "failed"}
      BY <1>3 DEF Ledger!Outcomes
    <3> QED BY <1>1, <3>1, <3>2 DEF Ledger!PendingOf, Ledger!ChargedTo
  <2>2. balance[v] + Ledger!Held(v) + Ledger!Charged(v) = Ledger!Granted(v)
    BY DEF LedgerInv, Ledger!Conserved
  <2> HIDE DEF r
  <2>3. /\ Ledger!Granted(v)' = Ledger!Granted(v) /\ Ledger!Granted(v) \in Nat
        /\ Ledger!Held(v) \in Nat
        /\ Ledger!Charged(v) \in Nat /\ (c \in Ledger!PendingOf(v)
                                         => LedgerReserved[c] <= Ledger!Held(v))
        /\ Ledger!Held(v)'
             = (Ledger!Held(v) - (IF c \in Ledger!PendingOf(v) THEN usage[c].reserved ELSE 0))
                       + (IF c \in Ledger!PendingOf(v)' THEN r.reserved ELSE 0)
        /\ (c \notin Ledger!ChargedTo(v) =>
              Ledger!Charged(v)' = Ledger!Charged(v)
                + (IF c \in Ledger!ChargedTo(v)' THEN Ledger!AtMost(r.used, r.reserved) ELSE 0))
    BY <1>2, <1>3, <1>7, <1>9, LedgerRowStep DEF LedgerInv
  <2>4. Ledger!Held(v)' = Ledger!Held(v) - (IF mine THEN usage[c].reserved ELSE 0)
    BY <1>3, <2>1, <2>3
  <2>5. Ledger!Charged(v)' = Ledger!Charged(v)
          + (IF mine THEN Ledger!AtMost(calls[c].used, usage[c].reserved) ELSE 0)
    BY <1>3, <1>4, <2>1, <2>3
  <2>6. balance'[v] = balance[v] + (IF mine THEN back ELSE 0) /\ balance[v] \in Nat
    BY <1>1, <1>5
  <2> HIDE DEF back, mine, u
  <2> QED BY <1>3, <1>4, <2>2, <2>3, <2>4, <2>5, <2>6
<1> QED BY <1>7, <1>9, <1>10, <1>11 DEF LedgerInv, Ledger!Conserved

\* A restart gives back all that is held, and nothing is pending any more.
LEMMA LedgerRestartKeeps ==
  ASSUME Ledger!Assumptions, LedgerInv, Ledger!Restart
  PROVE  LedgerInv'
<1>1. /\ balance \in [Payers -> Nat]
      /\ balance' = [u \in Payers |-> balance[u] + Ledger!Held(u)]
      /\ \A c \in Calls : usage[c] \in Ledger!Usage /\
           usage'[c] = IF usage[c].status = "pending"
                       THEN [usage[c] EXCEPT !.status = "interrupted"] ELSE usage[c]
      /\ usage' = [c \in Calls |-> IF usage[c].status = "pending"
                                   THEN [usage[c] EXCEPT !.status = "interrupted"]
                                          ELSE usage[c]]
      /\ calls' = [c \in Calls |-> Ledger!NoRun] /\ UNCHANGED <<source, grants>>
      /\ recoveries' \in 0..MaxRestarts
  BY DEF Ledger!Restart, LedgerInv, Ledger!TypeOK, Ledger!Assumptions
<1>2. \A u \in Payers : /\ Ledger!Held(u) \in Nat /\ Ledger!Charged(u) \in Nat
                        /\ Ledger!Charged(u) = Total(Ledger!Cost, Ledger!ChargedTo(u))
                        /\ IsFiniteSet(Ledger!ChargedTo(u))
  BY LedgerSumsFinite DEF LedgerInv
<1>3. Ledger!TypeOK'
  <2>1. \A c \in Calls : usage'[c] \in Ledger!Usage
    BY <1>1 DEF Ledger!Usage
  <2>2. Ledger!NoRun \in Ledger!Run
    BY DEF Ledger!NoRun, Ledger!Run, Ledger!Sources, Ledger!Outcomes
  <2> QED BY <1>1, <1>2, <2>1, <2>2 DEF LedgerInv, Ledger!TypeOK
<1>4. \A c \in Calls : /\ usage'[c].status # "pending" /\ usage'[c].user = usage[c].user
                       /\ usage'[c].source = usage[c].source /\ usage'[c].used = usage[c].used
                       /\ usage'[c].reserved = usage[c].reserved
                       /\ (usage[c].status # "pending" => usage'[c].status = usage[c].status)
                       /\ (usage[c].status = "pending" => usage'[c].status = "interrupted")
  BY <1>1 DEF Ledger!Usage
<1>5. LedgerFinite'
  <2>1. LedgerRows(usage)' = LedgerRows(usage)
    BY <1>4 DEF LedgerRows
  <2> QED BY <1>1, <2>1 DEF LedgerInv, LedgerFinite
<1>6. LedgerSettles'
  BY <1>1, <1>4 DEF LedgerSettles, Ledger!NoRun
<1>7. ASSUME NEW u \in Payers
      PROVE  (balance[u] + Ledger!Held(u) + Ledger!Charged(u) = Ledger!Granted(u))'
  <2>1. Ledger!PendingOf(u)' = {} /\ Ledger!ChargedTo(u)' = Ledger!ChargedTo(u)
    BY <1>4 DEF Ledger!PendingOf, Ledger!ChargedTo
  <2>2. Ledger!Held(u)' = 0
    BY <2>1, TotalNone DEF Ledger!Held, Total
  <2>3. Ledger!Cost' = Ledger!Cost
    BY <1>4 DEF Ledger!Cost
  <2>4. Ledger!Charged(u)' = Ledger!Charged(u)
    BY <2>1, <2>3 DEF Ledger!Charged
  <2>5. Ledger!Granted(u)' = Ledger!Granted(u)
    BY <1>1, LedgerSumsStay
  <2>6. /\ balance[u] + Ledger!Held(u) + Ledger!Charged(u) = Ledger!Granted(u)
        /\ balance'[u] = balance[u] + Ledger!Held(u)
    BY <1>1 DEF LedgerInv, Ledger!Conserved
  <2> QED BY <1>1, <1>2, <2>2, <2>4, <2>5, <2>6
<1> QED BY <1>3, <1>5, <1>6, <1>7 DEF LedgerInv, Ledger!Conserved

LEMMA LedgerNextKeeps ==
  ASSUME Ledger!Assumptions, LedgerInv, [Ledger!Next]_(Ledger!vars)
  PROVE  LedgerInv'
<1>1. CASE UNCHANGED Ledger!vars
  <2>1. Ledger!TypeOK' /\ LedgerFinite' /\ LedgerSettles'
    BY <1>1 DEF Ledger!vars, LedgerInv, Ledger!TypeOK, LedgerFinite, LedgerSettles, LedgerRows
  <2>2. Ledger!Conserved'
    BY <1>1, LedgerSumsStay DEF Ledger!vars, LedgerInv, Ledger!Conserved
  <2> QED BY <2>1, <2>2 DEF LedgerInv
<1> QED BY <1>1, LedgerSourceKeeps, LedgerCreditKeeps, LedgerReserveKeeps, LedgerAnswerKeeps,
           LedgerSettleKeeps, LedgerRestartKeeps DEF Ledger!Next

\* No step changes a row whose call has ended.
LEMMA LedgerEndedStays ==
  ASSUME Ledger!Assumptions, LedgerInv, [Ledger!Next]_(Ledger!vars), NEW c \in Calls,
         usage[c].status \notin {"none", "pending"}
  PROVE  usage'[c] = usage[c]
<1>1. usage \in [Calls -> Ledger!Usage]
  BY DEF LedgerInv, Ledger!TypeOK
<1>2. CASE UNCHANGED usage
  BY <1>2
<1>3. ASSUME NEW d \in Calls, NEW u \in Payers, NEW reserve \in Reserves,
             Ledger!Reserve(d, u, reserve)
      PROVE  usage'[c] = usage[c]
  BY <1>1, <1>3 DEF Ledger!Reserve
<1>4. ASSUME NEW d \in Calls, Ledger!Settle(d) PROVE usage'[c] = usage[c]
  BY <1>1, <1>4 DEF Ledger!Settle
<1>5. CASE Ledger!Restart
  BY <1>1, <1>5 DEF Ledger!Restart
<1> QED BY <1>2, <1>3, <1>4, <1>5
           DEF Ledger!Next, Ledger!vars, Ledger!AiSettingsSave, Ledger!Credit, Ledger!Answer,
               Ledger!SettleFails

-----------------------------------------------------------------------------
(* The subscription: Checkout *)

LEMMA PayingCounts == \A S : Paying!Cardinality(S) = Cardinality(S)
BY DEF Paying!Cardinality, Cardinality

\* Stripe tells of paid invoices only, and the database has finitely many.
PayingPaidOnly ==
  \A e \in events : e.type = "paid" => [customer |-> e.customer,
                                        number |-> e.number] \in invoices

PayingInv == Paying!TypeOK /\ IsFiniteSet(credited) /\ Paying!CreditedOnce /\ PayingPaidOnly

LEMMA PayingInitHolds == ASSUME Paying!Assumptions, Paying!Init PROVE PayingInv
<1>1. Paying!TypeOK
  BY DEF Paying!Init, Paying!TypeOK, Paying!Assumptions, Paying!Maybe, Paying!Stages
<1>2. IsFiniteSet(credited) /\ Paying!CreditedOnce
  BY PayingCounts, FS_EmptySet DEF Paying!Init, Paying!CreditedOnce
<1>3. PayingPaidOnly
  BY DEF Paying!Init, PayingPaidOnly
<1> QED BY <1>1, <1>2, <1>3 DEF PayingInv

\* A request changes neither the invoices nor the credits.
LEMMA PayingRequestsKeep ==
  ASSUME Paying!Assumptions, PayingInv, NEW r \in Requests,
         Paying!ReadCustomer(r) \/ Paying!LockCheckout(r) \/ Paying!CreateSession(r)
           \/ Paying!CheckoutFails(r)
  PROVE  PayingInv'
<1>1. UNCHANGED <<customer, credited, periods, expiries, subscribed, invoices, events>>
  BY DEF Paying!ReadCustomer, Paying!LockCheckout, Paying!CreateSession, Paying!CheckoutFails,
         Paying!dbVars, Paying!stripeVars
<1>2. /\ request' \in [Requests -> [stage : Paying!Stages,
                                    existing : Paying!Maybe(Paying!Customers)]]
      /\ cached' \in Paying!Maybe(Payments)
      /\ payment' \in [Payments -> [stage : {"none", "open", "over"},
                                    customer : Paying!Maybe(Paying!Customers)]]
  <2>1. /\ request \in [Requests -> [stage : Paying!Stages,
                                     existing : Paying!Maybe(Paying!Customers)]]
        /\ cached \in Paying!Maybe(Payments) /\ customer \in Paying!Maybe(Paying!Customers)
        /\ payment \in [Payments -> [stage : {"none", "open", "over"},
                                     customer : Paying!Maybe(Paying!Customers)]]
    BY DEF PayingInv, Paying!TypeOK
  <2>2. \A stage \in Paying!Stages : Paying!Becomes(r, stage) =>
          request' \in [Requests -> [stage : Paying!Stages,
                                     existing : Paying!Maybe(Paying!Customers)]]
    BY <2>1 DEF Paying!Becomes
  <2>3. CASE Paying!ReadCustomer(r)
    BY <2>1, <2>3 DEF Paying!ReadCustomer, Paying!Stages, Paying!dbVars, Paying!stripeVars
  <2>4. CASE Paying!LockCheckout(r)
    BY <2>1, <2>2, <2>4 DEF Paying!LockCheckout, Paying!Stages, Paying!dbVars, Paying!stripeVars
  <2>5. CASE Paying!CreateSession(r)
    BY <2>1, <2>2, <2>5 DEF Paying!CreateSession, Paying!Stages, Paying!Maybe
  <2>6. CASE Paying!CheckoutFails(r)
    BY <2>1, <2>2, <2>6
       DEF Paying!CheckoutFails, Paying!Stages, Paying!dbVars, Paying!stripeVars
  <2> QED BY <2>3, <2>4, <2>5, <2>6
<1> QED BY PayingCounts, <1>1, <1>2
           DEF PayingInv, Paying!TypeOK, Paying!CreditedOnce, PayingPaidOnly

LEMMA PayingStripeKeeps ==
  ASSUME Paying!Assumptions, PayingInv,
         \/ Paying!ExpireCached \/ Paying!Cancel
         \/ \E s \in Payments : Paying!ExpireSession(s)
  PROVE  PayingInv'
<1>1. UNCHANGED <<customer, credited, periods, request, invoices, events>>
  BY DEF Paying!ExpireCached, Paying!Cancel, Paying!ExpireSession, Paying!dbVars,
         Paying!stripeVars
<1>2. /\ cached' \in Paying!Maybe(Payments) /\ expiries' \in 0..MaxExpiries
      /\ subscribed' \subseteq Paying!Customers
      /\ payment' \in [Payments -> [stage : {"none", "open", "over"},
                                    customer : Paying!Maybe(Paying!Customers)]]
  BY DEF PayingInv, Paying!TypeOK, Paying!ExpireCached, Paying!Cancel, Paying!ExpireSession,
         Paying!dbVars, Paying!stripeVars, Paying!Assumptions, Paying!Maybe
<1> QED BY PayingCounts, <1>1, <1>2
           DEF PayingInv, Paying!TypeOK, Paying!CreditedOnce, PayingPaidOnly

\* A payment and a renewal add an invoice, and the events that tell of it.
LEMMA PayingInvoicesKeep ==
  ASSUME Paying!Assumptions, PayingInv, NEW c \in Paying!Customers, NEW n \in 1..MaxInvoices,
         UNCHANGED <<Paying!dbVars, request, expiries>>,
         invoices' = invoices \cup {[customer |-> c, number |-> n]},
         events' \in {events \cup {Paying!Paid([customer |-> c, number |-> n])},
                      events \cup {Paying!Completed(c),
                                   Paying!Paid([customer |-> c, number |-> n])}},
         subscribed' \subseteq Paying!Customers,
         payment' \in [Payments -> [stage : {"none", "open", "over"},
                                    customer : Paying!Maybe(Paying!Customers)]]
  PROVE  PayingInv'
<1>1. [customer |-> c, number |-> n] \in Paying!Invoice
  BY DEF Paying!Invoice
<1>2. /\ Paying!Paid([customer |-> c, number |-> n])
           = [type |-> "paid", customer |-> c, number |-> n]
      /\ Paying!Completed(c) = [type |-> "completed", customer |-> c, number |-> 0]
      /\ n \in 0..MaxInvoices /\ 0 \in 0..MaxInvoices
  BY DEF Paying!Paid, Paying!Completed, Paying!Assumptions
<1>3. Paying!TypeOK'
  BY <1>1, <1>2 DEF PayingInv, Paying!TypeOK, Paying!dbVars
<1>4. PayingPaidOnly'
  BY <1>2 DEF PayingInv, PayingPaidOnly
<1>5. IsFiniteSet(credited') /\ Paying!CreditedOnce'
  BY PayingCounts DEF PayingInv, Paying!CreditedOnce, Paying!dbVars
<1> QED BY <1>3, <1>4, <1>5 DEF PayingInv

LEMMA PayingPaymentsKeep ==
  ASSUME Paying!Assumptions, PayingInv, (\E s \in Payments : Paying!Pay(s))
           \/ (\E c \in Paying!Customers : Paying!Renew(c))
  PROVE  PayingInv'
<1>1. ASSUME NEW s \in Payments, Paying!Pay(s) PROVE PayingInv'
  <2> DEFINE c == IF payment[s].customer = None THEN s ELSE payment[s].customer
  <2>1. c \in Paying!Customers
    BY DEF PayingInv, Paying!TypeOK, Paying!Customers, Paying!Maybe
  <2>2. PICK n \in 1..MaxInvoices :
          /\ invoices' = invoices \cup {[customer |-> c, number |-> n]}
          /\ events' = events \cup {Paying!Completed(c),
                                    Paying!Paid([customer |-> c, number |-> n])}
    BY <1>1 DEF Paying!Pay
  <2>3. /\ payment' = [payment EXCEPT ![s].stage = "over"] /\ subscribed' = subscribed \cup {c}
        /\ UNCHANGED <<Paying!dbVars, request, expiries>>
    BY <1>1 DEF Paying!Pay
  <2>4. /\ payment' \in [Payments -> [stage : {"none", "open", "over"},
                                      customer : Paying!Maybe(Paying!Customers)]]
        /\ subscribed' \subseteq Paying!Customers
    BY <2>1, <2>3 DEF PayingInv, Paying!TypeOK
  <2> HIDE DEF c
  <2> QED BY <2>1, <2>2, <2>3, <2>4, PayingInvoicesKeep
<1>2. ASSUME NEW c \in Paying!Customers, Paying!Renew(c) PROVE PayingInv'
  <2>1. PICK n \in 1..MaxInvoices :
          /\ invoices' = invoices \cup {[customer |-> c, number |-> n]}
          /\ events' = events \cup {Paying!Paid([customer |-> c, number |-> n])}
    BY <1>2 DEF Paying!Renew
  <2>2. UNCHANGED <<Paying!dbVars, request, expiries, payment, subscribed>>
    BY <1>2 DEF Paying!Renew
  <2>3. /\ subscribed' \subseteq Paying!Customers
        /\ payment' \in [Payments -> [stage : {"none", "open", "over"},
                                      customer : Paying!Maybe(Paying!Customers)]]
    BY <2>2 DEF PayingInv, Paying!TypeOK
  <2> QED BY <2>1, <2>2, <2>3, PayingInvoicesKeep
<1> QED BY <1>1, <1>2

\* What the webhook is told of it credits at most once.
LEMMA PayingWebhookKeeps ==
  ASSUME Paying!Assumptions, PayingInv, NEW e \in events, NEW acknowledged \in BOOLEAN,
         (\E second \in BOOLEAN : Paying!WebhookCompleted(e, second, acknowledged))
           \/ Paying!WebhookPaid(e, acknowledged)
  PROVE  PayingInv'
<1>1. /\ e \in [type : {"completed", "paid"}, customer : Paying!Customers,
                number : 0..MaxInvoices]
      /\ events' \subseteq events /\ UNCHANGED <<request, expiries, payment, subscribed,
                                                 invoices>>
  BY DEF PayingInv, Paying!TypeOK, Paying!WebhookCompleted, Paying!WebhookPaid,
         Paying!Acknowledge
<1>2. PayingPaidOnly'
  BY <1>1 DEF PayingInv, PayingPaidOnly
<1>3. CASE \E second \in BOOLEAN : Paying!WebhookCompleted(e, second, acknowledged)
  <2>1. /\ customer' \in Paying!Maybe(Paying!Customers) /\ cached' \in Paying!Maybe(Payments)
        /\ UNCHANGED <<credited, periods>>
    BY <1>1, <1>3 DEF Paying!WebhookCompleted, PayingInv, Paying!TypeOK, Paying!Maybe
  <2> QED BY PayingCounts, <1>1, <1>2, <2>1 DEF PayingInv, Paying!TypeOK, Paying!CreditedOnce
<1>4. CASE Paying!WebhookPaid(e, acknowledged)
  <2> DEFINE i == [customer |-> e.customer, number |-> e.number]
  <2>1. /\ i \in invoices /\ UNCHANGED <<customer, cached>>
        /\ IF i \in credited THEN UNCHANGED <<credited, periods>>
           ELSE credited' = credited \cup {i} /\ periods' = periods + 1
    BY <1>1, <1>4 DEF Paying!WebhookPaid, PayingInv, PayingPaidOnly
  <2> HIDE DEF i
  <2>2. /\ credited \subseteq invoices /\ periods = Cardinality(credited)
        /\ invoices \subseteq Paying!Invoice
        /\ IsFiniteSet(credited) /\ periods \in Nat
    BY PayingCounts DEF PayingInv, Paying!TypeOK, Paying!CreditedOnce
  <2>3. /\ credited' \subseteq invoices' /\ periods' = Cardinality(credited')
        /\ IsFiniteSet(credited') /\ periods' \in Nat
    BY <1>1, <2>1, <2>2, FS_AddElement
  <2>4. Paying!TypeOK'
    BY <1>1, <2>1, <2>2, <2>3 DEF PayingInv, Paying!TypeOK
  <2> QED BY PayingCounts, <1>2, <2>3, <2>4 DEF PayingInv, Paying!CreditedOnce
<1> QED BY <1>3, <1>4

LEMMA PayingNextKeeps ==
  ASSUME Paying!Assumptions, PayingInv, [Paying!Next]_(Paying!vars)
  PROVE  PayingInv'
<1>1. CASE UNCHANGED Paying!vars
  BY PayingCounts, <1>1
     DEF Paying!vars, Paying!dbVars, Paying!stripeVars, PayingInv, Paying!TypeOK,
         Paying!CreditedOnce, PayingPaidOnly
<1>2. CASE Paying!Next
  <2>1. CASE \E r \in Requests : \/ Paying!ReadCustomer(r) \/ Paying!LockCheckout(r)
                                 \/ Paying!CreateSession(r) \/ Paying!CheckoutFails(r)
    BY <2>1, PayingRequestsKeep
  <2>2. CASE \/ Paying!ExpireCached \/ Paying!Cancel
             \/ \E s \in Payments : Paying!ExpireSession(s)
    BY <2>2, PayingStripeKeeps
  <2>3. CASE (\E s \in Payments : Paying!Pay(s))
               \/ (\E c \in Paying!Customers : Paying!Renew(c))
    BY <2>3, PayingPaymentsKeep
  <2>4. CASE \E e \in events, acknowledged \in BOOLEAN :
               \/ \E second \in BOOLEAN : Paying!WebhookCompleted(e, second, acknowledged)
               \/ Paying!WebhookPaid(e, acknowledged)
    BY <2>4, PayingWebhookKeeps
  <2> QED BY <1>2, <2>1, <2>2, <2>3, <2>4 DEF Paying!Next
<1> QED BY <1>1, <1>2

-----------------------------------------------------------------------------
(* The types of the credentials of agents: AgentEnrollment *)

\* An abandoned call is a call.
LEMMA EnrollmentAbandonTyped ==
  ASSUME Enrollment!TypeOK, NEW a \in Agents, Enrollment!Abandon(a)
  PROVE  requests' \subseteq Enrollment!Request /\ reply' \in [Agents -> Enrollment!Reply]
<1>1. requests' \subseteq Enrollment!Request
  <2> SUFFICES ASSUME NEW n \in requests' PROVE n \in Enrollment!Request
    OBVIOUS
  <2>1. PICK m \in requests :
          n = IF m.agent = a THEN [m EXCEPT !.wanted = FALSE] ELSE m
    BY DEF Enrollment!Abandon
  <2> QED BY <2>1 DEF Enrollment!TypeOK, Enrollment!Request
<1>2. reply' \in [Agents -> Enrollment!Reply]
  BY DEF Enrollment!TypeOK, Enrollment!Abandon, Enrollment!Reply, Enrollment!NoReply,
         Enrollment!Maybe
<1> QED BY <1>1, <1>2

\* A call of the running process is a call.
LEMMA EnrollmentCallTyped ==
  ASSUME Enrollment!TypeOK, NEW a \in Agents, NEW kind \in {"register", "report"},
         NEW secret \in Secrets, Enrollment!Call(a, kind, secret)
  PROVE  Enrollment!TypeOK'
<1> DEFINE call == [agent |-> a, kind |-> kind, secret |-> secret,
                   identified |-> FALSE, wanted |-> TRUE]
<1>1. call \in Enrollment!Request
  BY DEF Enrollment!Request
<1>2. requests' \subseteq Enrollment!Request
  BY <1>1 DEF Enrollment!TypeOK, Enrollment!Call
<1>3. pc' \in [Agents -> Enrollment!Stages]
  BY DEF Enrollment!TypeOK, Enrollment!Call, Enrollment!Stages
<1> QED BY <1>2, <1>3
           DEF Enrollment!TypeOK, Enrollment!Call, Enrollment!serverVars, Enrollment!tokenVars

\* Every variable keeps its type in every step.
LEMMA EnrollmentNextTyped ==
  ASSUME Enrollment!TypeOK, [Enrollment!Next]_(Enrollment!vars)
  PROVE  Enrollment!TypeOK'
<1> USE DEF Enrollment!Maybe, Enrollment!serverVars, Enrollment!tokenVars, Enrollment!agentVars,
            Enrollment!callVars
<1>1. CASE Enrollment!Owner
  BY <1>1
     DEF Enrollment!Owner, Enrollment!TypeOK, Enrollment!AgentEnable,
         Enrollment!AgentRegistration, Enrollment!AgentDisable, Enrollment!AgentRotate,
         Enrollment!ExpireRegistration
<1>2. ASSUME NEW m \in requests, Enrollment!Handle(m) PROVE Enrollment!TypeOK'
  <2>1. CASE Enrollment!AgentRegister(m)
    BY <2>1
       DEF Enrollment!TypeOK, Enrollment!AgentRegister, Enrollment!Answer, Enrollment!Taken,
           Enrollment!Reply, Enrollment!Request
  <2>2. CASE Enrollment!AgentIdentity(m)
    BY <2>2 DEF Enrollment!TypeOK, Enrollment!AgentIdentity, Enrollment!Request
  <2>3. CASE Enrollment!Refuse(m)
    BY <2>3
       DEF Enrollment!TypeOK, Enrollment!Refuse, Enrollment!Answer, Enrollment!Taken,
           Enrollment!Reply, Enrollment!Request
  <2>4. CASE Enrollment!LoseRequest(m)
    BY <2>4 DEF Enrollment!TypeOK, Enrollment!LoseRequest
  <2>5. ASSUME NEW sample \in BOOLEAN, NEW fresh \in BOOLEAN,
               Enrollment!IngestAgent(m, sample, fresh)
        PROVE  Enrollment!TypeOK'
    BY <2>5
       DEF Enrollment!TypeOK, Enrollment!IngestAgent, Enrollment!Answer, Enrollment!Taken,
           Enrollment!Reply, Enrollment!Request
  <2> QED BY <1>2, <2>1, <2>2, <2>3, <2>4, <2>5 DEF Enrollment!Handle
<1>3. ASSUME NEW a \in Agents, Enrollment!AgentStep(a) PROVE Enrollment!TypeOK'
  <2> USE DEF Enrollment!Stages, Enrollment!Config, Enrollment!Blank
  <2>1. CASE \E t \in handedOut : Enrollment!Install(a, t)
    BY <2>1 DEF Enrollment!TypeOK, Enrollment!Install
  <2>2. CASE Enrollment!Start(a)
    BY <2>2 DEF Enrollment!TypeOK, Enrollment!Start
  <2>3. CASE Enrollment!SendRegister(a)
    <3>1. memory[a].reg \in Secrets
      BY <2>3 DEF Enrollment!TypeOK, Enrollment!SendRegister
    <3> QED BY <2>3, <3>1, EnrollmentCallTyped DEF Enrollment!SendRegister
  <2>4. CASE Enrollment!SendReport(a)
    <3>1. memory[a].report \in Secrets
      BY <2>4 DEF Enrollment!TypeOK, Enrollment!SendReport
    <3> QED BY <2>4, <3>1, EnrollmentCallTyped DEF Enrollment!SendReport
  <2>5. CASE Enrollment!ReceiveRegistered(a)
    BY <2>5
       DEF Enrollment!TypeOK, Enrollment!ReceiveRegistered, Enrollment!Reply, Enrollment!NoReply
  <2>6. CASE Enrollment!Apply(a)
    <3>1. [memory[a] EXCEPT !.report = reply[a].token] \in Enrollment!Config
      BY DEF Enrollment!TypeOK, Enrollment!Reply
    <3>2. memory' \in [Agents -> Enrollment!Config]
      BY <2>6, <3>1 DEF Enrollment!TypeOK, Enrollment!Apply
    <3>3. pc' \in [Agents -> Enrollment!Stages]
      BY <2>6 DEF Enrollment!TypeOK, Enrollment!Apply
    <3>4. reply' \in [Agents -> Enrollment!Reply]
      BY <2>6 DEF Enrollment!TypeOK, Enrollment!Apply, Enrollment!Reply, Enrollment!NoReply
    <3> QED BY <2>6, <3>2, <3>3, <3>4 DEF Enrollment!TypeOK, Enrollment!Apply
  <2>7. CASE Enrollment!SaveConfig(a)
    BY <2>7 DEF Enrollment!TypeOK, Enrollment!SaveConfig
  <2>8. CASE Enrollment!ReceiveUnauthorized(a)
    <3>1. reply' \in [Agents -> Enrollment!Reply]
      BY <2>8
         DEF Enrollment!TypeOK, Enrollment!ReceiveUnauthorized, Enrollment!Reply,
             Enrollment!NoReply
    <3>2. pc' \in [Agents -> Enrollment!Stages] /\ memory' \in [Agents -> Enrollment!Config]
      BY <2>8 DEF Enrollment!TypeOK, Enrollment!ReceiveUnauthorized, Enrollment!Exit
    <3> QED BY <2>8, <3>1, <3>2 DEF Enrollment!TypeOK, Enrollment!ReceiveUnauthorized
  <2>9. CASE Enrollment!GiveUp(a)
    <3>1. pc' \in [Agents -> Enrollment!Stages] /\ memory' \in [Agents -> Enrollment!Config]
      <4>1. CASE memory[a].report = None
        BY <2>9, <4>1 DEF Enrollment!TypeOK, Enrollment!GiveUp, Enrollment!Exit
      <4>2. CASE memory[a].report # None
        BY <2>9, <4>2 DEF Enrollment!TypeOK, Enrollment!GiveUp
      <4> QED BY <4>1, <4>2
    <3>2. requests' \subseteq Enrollment!Request /\ reply' \in [Agents -> Enrollment!Reply]
      BY <2>9, EnrollmentAbandonTyped DEF Enrollment!GiveUp
    <3> QED BY <2>9, <3>1, <3>2 DEF Enrollment!TypeOK, Enrollment!GiveUp
  <2>10. CASE Enrollment!Crash(a)
    BY <2>10, EnrollmentAbandonTyped DEF Enrollment!TypeOK, Enrollment!Crash, Enrollment!Exit
  <2>11. CASE Enrollment!Remove(a)
    BY <2>11, EnrollmentAbandonTyped DEF Enrollment!TypeOK, Enrollment!Remove
  <2> QED BY <1>3, <2>1, <2>2, <2>3, <2>4, <2>5, <2>6, <2>7, <2>8, <2>9, <2>10, <2>11
             DEF Enrollment!AgentStep
<1>4. CASE UNCHANGED Enrollment!vars
  BY <1>4 DEF Enrollment!TypeOK, Enrollment!vars
<1> QED BY <1>1, <1>2, <1>3, <1>4 DEF Enrollment!Next

LEMMA EnrollmentInitTyped == ASSUME Enrollment!Init PROVE Enrollment!TypeOK
<1>1. Enrollment!Blank \in Enrollment!Config /\ Enrollment!NoReply \in Enrollment!Reply
  BY DEF Enrollment!Blank, Enrollment!Config, Enrollment!NoReply, Enrollment!Reply,
         Enrollment!Maybe
<1> QED BY <1>1 DEF Enrollment!Init, Enrollment!TypeOK, Enrollment!Maybe, Enrollment!Stages

-----------------------------------------------------------------------------
(* The theorems *)

\* Requests that dial hold a place, and what is open belongs to a session (connect, guard).
THEOREM ConnsInvariant == ServerSpec => []ConnsInv
<1>1. ServerInit => ConnsInv
  BY ServerAssumption, ConnsInitHolds DEF ServerInit
<1>2. ConnsInv /\ [ServerNext]_serverVars => ConnsInv'
  <2>1. [ServerNext]_serverVars => [Conns!Next]_(Conns!vars)
    BY DEF ServerNext, serverVars, connsVars, Conns!vars
  <2> QED BY <2>1, ServerAssumption, ConnsNextKeeps
<1> QED BY <1>1, <1>2, PTL DEF ServerSpec

\* The hub in the map is the only one that is not cancelled, and the hub that holds the lock
\* sends to its own subscribers (subscribeMetrics, collectMetrics).
THEOREM HubInvariant == ServerSpec => []HubInv
<1>1. ServerInit => HubInv
  BY ServerAssumption, HubInitHolds DEF ServerInit
<1>2. HubInv /\ [ServerNext]_serverVars => HubInv'
  <2>1. [ServerNext]_serverVars => [Hub!Next]_(Hub!vars)
    BY DEF ServerNext, serverVars, hubVars, Hub!vars, Hub!hubVars, Hub!sendVars
  <2> QED BY <2>1, ServerAssumption, HubNextKeeps
<1> QED BY <1>1, <1>2, PTL DEF ServerSpec

\* The messages between page and worker are those of the download they know of, and the worker
\* counts what it has got (downloadStream, transfer-worker.js).
THEOREM DownloadInvariant == ServerSpec => []DownloadInv
<1>1. ServerInit => DownloadInv
  BY ServerAssumption, DownloadInitHolds DEF ServerInit
<1>2. DownloadInv /\ [ServerNext]_serverVars => DownloadInv'
  <2>1. [ServerNext]_serverVars => [Download!Next]_(Download!vars)
    BY DEF ServerNext, serverVars, downloadVars, Download!vars, Download!pageVars,
           Download!workerVars, Download!frameVars
  <2> QED BY <2>1, ServerAssumption, DownloadNextKeeps
<1> QED BY <1>1, <1>2, PTL DEF ServerSpec

\* A call that runs has a pending row of its own and settles by what the row says, and the
\* credits add up (credit, modelCall, settle, recoverInterrupted).
THEOREM LedgerInvariant == ServerSpec => []LedgerInv
<1>1. ServerInit => LedgerInv
  BY ServerAssumption, LedgerInitHolds DEF ServerInit
<1>2. LedgerInv /\ [ServerNext]_serverVars => LedgerInv'
  <2>1. [ServerNext]_serverVars => [Ledger!Next]_(Ledger!vars)
    BY DEF ServerNext, serverVars, ledgerVars, Ledger!vars
  <2> QED BY <2>1, ServerAssumption, LedgerNextKeeps
<1> QED BY <1>1, <1>2, PTL DEF ServerSpec

\* Stripe tells of paid invoices only, and each adds credits once (billingWebhook).
THEOREM PayingInvariant == ServerSpec => []PayingInv
<1>1. ServerInit => PayingInv
  BY ServerAssumption, PayingInitHolds DEF ServerInit
<1>2. PayingInv /\ [ServerNext]_serverVars => PayingInv'
  <2>1. [ServerNext]_serverVars => [Paying!Next]_(Paying!vars)
    BY DEF ServerNext, serverVars, payingVars, Paying!vars, Paying!dbVars, Paying!stripeVars
  <2> QED BY <2>1, ServerAssumption, PayingNextKeeps
<1> QED BY <1>1, <1>2, PTL DEF ServerSpec

\* Requests that dial at the same time keep to the limits of their user and of the server, and
\* no open SSH client is out of reach of its session's end (connect, guard, logout).
THEOREM PlacesAreKept == ServerSpec => []PlacesKept
<1>1. ConnsInv => PlacesKept
  BY DEF ConnsInv, PlacesKept
<1> QED BY <1>1, ConnsInvariant, PTL

\* However windows come and go while collectors wait, read and send: a window that watches
\* has a collector that goes on, no other one does, and the last reading reaches it
\* (subscribeMetrics, collectMetrics).
THEOREM EveryWindowServed == ServerSpec => []WindowsServed
<1>1. HubInv => WindowsServed
  BY ServerAssumption, HubInvServes DEF WindowsServed
<1> QED BY <1>1, HubInvariant, PTL

\* A download of something, however its pieces, its end and its cancellation overtake each
\* other: what is done is whole (downloadStream, transfer-worker.js).  Without a piece at all
\* it need not be: the run DownloadEmpty.
THEOREM DoneAreWhole == Chunks > 0 => (ServerSpec => []DoneIsWhole)
<1> SUFFICES ASSUME Chunks > 0 PROVE ServerSpec => []DoneIsWhole
  OBVIOUS
<1>1. DownloadInv => DoneIsWhole
  BY ServerAssumption, DownloadInvWhole DEF DoneIsWhole
<1> QED BY <1>1, DownloadInvariant, PTL

\* For any number of users, calls, events and restarts no credit appears or disappears between
\* what was granted, what the balance holds, what calls have reserved and what they were
\* charged; and an invoice adds credits once, if it is paid (credit, modelCall, settle,
\* recoverInterrupted, billingWebhook).
THEOREM CreditsAddUp == ServerSpec => []CreditsAdd
<1>1. LedgerInv /\ PayingInv => CreditsAdd
  BY DEF LedgerInv, PayingInv, CreditsAdd
<1> QED BY <1>1, LedgerInvariant, PayingInvariant, PTL

\* The task, its executions and its cancellations agree, whatever else the server does
\* (taskExecute, taskCancel, recoverInterrupted).
THEOREM TasksInvariant == ServerSpec => []IInv
<1>1. ServerInit => IInv
  BY ServerAssumption, InitHolds DEF ServerInit
<1>2. IInv /\ [ServerNext]_serverVars => IInv'
  <2>1. [ServerNext]_serverVars => [Next]_vars
    BY DEF ServerNext, serverVars
  <2> QED BY <2>1, ServerAssumption, NextKeeps
<1> QED BY <1>1, <1>2, PTL DEF ServerSpec

\* What has come to an end stays as it ended: a task under late saves, cancellations and
\* restarts, and the account of a model call under settlements and restarts (taskCancel,
\* saveTask, settle, recoverInterrupted).
THEOREM EndsAreFinal == ServerSpec => EndsStay
<1> DEFINE TaskStays == (status \in Ends) => status' \in {status, "none"}
           AccountStays == \A c \in Calls :
             usage[c].status \notin {"none", "pending"} => usage'[c] = usage[c]
<1>1. IInv /\ [ServerNext]_serverVars => [TaskStays]_vars
  <2>1. [ServerNext]_serverVars => [Next]_vars
    BY DEF ServerNext, serverVars
  <2> QED BY <2>1, EndStep
<1>2. LedgerInv /\ [ServerNext]_serverVars => [AccountStays]_(Ledger!vars)
  <2>1. [ServerNext]_serverVars => [Ledger!Next]_(Ledger!vars)
    BY DEF ServerNext, serverVars, ledgerVars, Ledger!vars
  <2> QED BY <2>1, ServerAssumption, LedgerEndedStays
<1> HIDE DEF TaskStays, AccountStays
<1>3. ServerSpec => [][TaskStays]_vars
  BY <1>1, TasksInvariant, PTL DEF ServerSpec
<1>4. ServerSpec => [][AccountStays]_(Ledger!vars)
  BY <1>2, LedgerInvariant, PTL DEF ServerSpec
<1> QED BY <1>3, <1>4 DEF EndsStay, EndStays, Ledger!AccountedOnce, TaskStays, AccountStays

\* Every row of a rotation, a revocation or a call of an agent keeps its type (agentEnable,
\* agentRegister, agentReport).
THEOREM EnrollmentTyped == ServerSpec => []Enrollment!TypeOK
<1>1. ServerInit => Enrollment!TypeOK
  BY EnrollmentInitTyped DEF ServerInit
<1>2. Enrollment!TypeOK /\ [ServerNext]_serverVars => Enrollment!TypeOK'
  <2>1. [ServerNext]_serverVars => [Enrollment!Next]_(Enrollment!vars)
    BY DEF ServerNext, serverVars, enrollmentVars, Enrollment!vars, Enrollment!serverVars,
           Enrollment!tokenVars, Enrollment!agentVars, Enrollment!callVars
  <2> QED BY <2>1, EnrollmentNextTyped
<1> QED BY <1>1, <1>2, PTL DEF ServerSpec

\* Every variable of every part keeps its type, for any tasks, users, windows, mounts,
\* deliveries, calls, invoices, samples, agents, pieces and questions.
THEOREM TypesHold == ServerSpec => []TypesOK
<1>1. IInv /\ ConnsInv /\ HubInv /\ DeliveriesInv /\ AlertsInv /\ LedgerInv /\ PayingInv
        /\ PipelineInv /\ Enrollment!TypeOK /\ DownloadInv /\ AskingInv => TypesOK
  BY ServerAssumption, HubInvTyped, DeliveriesInvTyped, AlertsInvTyped, DownloadInvTyped,
     AskingInvTyped
     DEF IInv, ConnsInv, LedgerInv, PayingInv, PipelineInv, TypesOK
<1> QED BY <1>1, TasksInvariant, ConnsInvariant, HubInvariant, DeliveriesInvariant,
           AlertsInvariant, LedgerInvariant, PayingInvariant, PipelineInvariant,
           EnrollmentTyped, DownloadInvariant, AskingInvariant, PTL
====
