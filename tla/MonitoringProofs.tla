---- MODULE MonitoringProofs ----
(***************************************************************************)
(* Proofs about Server: the evaluation of alerts and their deliveries, the *)
(* samples of an agent and the traffic that is counted from them, and the  *)
(* dialogs of the page, for any mounts, batches, buffers and questions.    *)
(* Each part has its inductive invariant and the lemmas that its actions   *)
(* keep it; the theorems are about the behaviours of Server.               *)
(***************************************************************************)
EXTENDS Server, SelectionsProofs, FiniteSetTheorems, SequenceTheorems, TLAPS

-----------------------------------------------------------------------------
(* The evaluation of alerts: AlertEngine *)

AlertsSeen   == [at : Alerts!Times, what : Alerts!Sights]
AlertsRaised == [at : Alerts!Times, kind : {"trigger", "recovery"}]

\* The newest observation is the last evaluation's, and evaluations are a second apart.
AlertsDated(k) ==
  /\ seen[k] \in Seq(AlertsSeen) /\ Len(seen[k]) <= Remembered
  /\ Len(seen[k]) > 0 => evaluated \in Alerts!Times /\ seen[k][Len(seen[k])].at = evaluated
  /\ \A i \in 1..Len(seen[k]) : evaluated - seen[k][i].at >= Len(seen[k]) - i

\* What has been seen is what, without a gap, since some time; or for as long as the
\* history remembers.
AlertsSteady(q, what, since) ==
  \E i \in 1..Len(q) :
    /\ q[i].at = since \/ Len(q) - i >= Remembered - 1
    /\ \A j \in i..Len(q) : q[j].what = what /\ (j > i => q[j].at - q[j - 1].at <= Gap)

\* What an alert and its end wait for has been seen since the time of its state.
AlertsRests(k) ==
  /\ state[k].lastObserved # Never => Len(seen[k]) > 0 /\ state[k].lastObserved = evaluated
  /\ state[k].lastObserved = Never => state[k].since = Never /\ state[k].recoverySince = Never
  /\ state[k].since # Never => AlertsSteady(seen[k], "high", state[k].since)
  /\ state[k].recoverySince # Never => AlertsSteady(seen[k], "low", state[k].recoverySince)

\* The state of an alert says what its events say.
AlertsNotified(k) ==
  /\ raised[k] = <<>> => state[k].lastNotified = Never /\ ~state[k].active
  /\ raised[k] # <<>> =>
       /\ state[k].lastNotified = raised[k][Len(raised[k])].at
       /\ state[k].active <=> Len(raised[k]) % 2 = 1

AlertsPacedFor(k) ==
  \A i \in 1..Len(raised[k]) :
    /\ raised[k][i].kind = IF i % 2 = 1 THEN "trigger" ELSE "recovery"
    /\ i > 1 /\ raised[k][i].kind = "trigger"
         => raised[k][i].at - raised[k][i - 1].at >= Cooldown

AlertsTypes ==
  /\ clock \in Alerts!Times /\ lastCurrent \in Alerts!Maybe(Alerts!Times)
  /\ values \in [Metrics \cup Mounts -> Alerts!Levels] /\ muted \in BOOLEAN
  /\ state \in [Alerts!Keys -> Alerts!AlertState]
  /\ evaluated \in Alerts!Maybe(Alerts!Times) /\ edits \in 0..MaxChanges
  /\ evaluated # Never => evaluated <= clock

\* The state of a mount may be deleted; those of the other keys are not.
AlertsInv ==
  /\ AlertsTypes
  /\ \A k \in Alerts!Keys : AlertsDated(k) /\ AlertsRests(k) /\ raised[k] \in Seq(AlertsRaised)
  /\ \A k \in Alerts!Keys \ Mounts : AlertsNotified(k) /\ AlertsPacedFor(k)

AlertsLate(st) == st.lastObserved # Never /\ clock - st.lastObserved > Gap

\* A time that an observation keeps: none is kept over a gap.
AlertsKept(st, since, time) == time = clock \/ (time = since /\ ~AlertsLate(st))

LEMMA AlertsObservedIs ==
  ASSUME clock \in Alerts!Times, NEW st \in Alerts!AlertState
  PROVE  /\ Alerts!Observed(st) \in Alerts!AlertState
         /\ Alerts!Observed(st).active = st.active
         /\ Alerts!Observed(st).lastNotified = st.lastNotified
         /\ Alerts!Observed(st).lastObserved = clock
         /\ Alerts!Observed(st).since = (IF AlertsLate(st) THEN Never ELSE st.since)
         /\ Alerts!Observed(st).recoverySince
              = (IF AlertsLate(st) THEN Never ELSE st.recoverySince)
<1> DEFINE since == IF AlertsLate(st) THEN Never ELSE st.since
           recoverySince == IF AlertsLate(st) THEN Never ELSE st.recoverySince
<1>1. Alerts!Observed(st) = [st EXCEPT !.lastObserved = clock, !.since = since,
                             !.recoverySince = recoverySince]
  BY Zenon DEF Alerts!Observed, AlertsLate
<1>2. since \in Alerts!Maybe(Alerts!Times) /\ recoverySince \in Alerts!Maybe(Alerts!Times)
  BY DEF Alerts!AlertState, Alerts!Maybe
<1> HIDE DEF since, recoverySince
<1>3. Alerts!Observed(st) = [active |-> st.active, since |-> since,
                             recoverySince |-> recoverySince,
                      lastObserved |-> clock, lastNotified |-> st.lastNotified]
  BY <1>1 DEF Alerts!AlertState
<1>4. Alerts!Observed(st) \in Alerts!AlertState
  BY <1>2, <1>3 DEF Alerts!AlertState, Alerts!Maybe
<1>5. Alerts!Observed(st).since = since /\ Alerts!Observed(st).recoverySince = recoverySince
  BY <1>3
<1> QED BY <1>3, <1>4, <1>5 DEF since, recoverySince

LEMMA AlertsInactiveIs ==
  ASSUME Alerts!Assumptions, clock \in Alerts!Times, NEW st \in Alerts!AlertState,
         NEW high \in BOOLEAN, NEW hold \in Nat,
         ~st.active, NEW r, r = Alerts!Inactive(st, high, hold)
  PROVE  /\ r.state \in Alerts!AlertState /\ r.change \in {"none", "trigger"}
         /\ r.state.lastObserved = st.lastObserved /\ r.state.recoverySince = Never
         /\ r.state.since # Never => high /\ r.state.since \in {clock, st.since}
         /\ r.change = "none" => ~r.state.active /\ r.state.lastNotified = st.lastNotified
         /\ r.change = "trigger" =>
              /\ r.state.active /\ r.state.lastNotified = clock /\ high
              /\ r.state.since \in Alerts!Times /\ clock - r.state.since >= hold
              /\ st.lastNotified # Never => clock - st.lastNotified >= Cooldown
<1> DEFINE since == IF st.since = Never THEN clock ELSE st.since
           To(s, a, n) == [active |-> a, since |-> s, recoverySince |-> Never,
                           lastObserved |-> st.lastObserved, lastNotified |-> n]
<1>1. since \in Alerts!Times /\ since \in {clock, st.since} /\ since # Never
  BY DEF Alerts!AlertState, Alerts!Maybe, Alerts!Times, Alerts!Assumptions
<1>2. CASE ~high
  <2>1. r = [state |-> To(Never, FALSE, st.lastNotified), change |-> "none"]
    BY <1>2 DEF Alerts!Inactive, Alerts!AlertState
  <2> QED BY <2>1 DEF Alerts!AlertState, Alerts!Maybe
<1>3. CASE high /\ clock - since >= hold /\ Alerts!LongerThan(st.lastNotified, Cooldown)
  <2>1. r = [state |-> To(since, TRUE, clock), change |-> "trigger"]
    BY <1>3 DEF Alerts!Inactive, Alerts!AlertState
  <2> HIDE DEF since
  <2>2. r.state \in Alerts!AlertState
    BY <1>1, <2>1 DEF Alerts!AlertState, Alerts!Maybe
  <2>3. /\ r.change = "trigger" /\ r.state.active = TRUE /\ r.state.lastNotified = clock
        /\ r.state.since = since /\ r.state.recoverySince = Never
        /\ r.state.lastObserved = st.lastObserved
    BY <2>1
  <2> QED BY <1>1, <1>3, <2>2, <2>3 DEF Alerts!LongerThan
<1>4. CASE high /\ ~(clock - since >= hold /\ Alerts!LongerThan(st.lastNotified, Cooldown))
  <2>1. r = [state |-> To(since, FALSE, st.lastNotified), change |-> "none"]
    BY <1>4 DEF Alerts!Inactive, Alerts!AlertState
  <2> HIDE DEF since
  <2>2. r.state \in Alerts!AlertState
    BY <1>1, <2>1 DEF Alerts!AlertState, Alerts!Maybe
  <2>3. /\ r.change = "none" /\ r.state.active = FALSE /\ r.state.lastNotified = st.lastNotified
        /\ r.state.since = since /\ r.state.recoverySince = Never
        /\ r.state.lastObserved = st.lastObserved
    BY <2>1
  <2> QED BY <1>1, <1>4, <2>2, <2>3
<1> QED BY <1>2, <1>3, <1>4

LEMMA AlertsActiveIs ==
  ASSUME Alerts!Assumptions, clock \in Alerts!Times, NEW st \in Alerts!AlertState,
         NEW low \in BOOLEAN,
         st.active, NEW r, r = Alerts!ActiveAlert(st, low)
  PROVE  /\ r.state \in Alerts!AlertState /\ r.change \in {"none", "recovery"}
         /\ r.state.lastObserved = st.lastObserved /\ r.state.since = Never
         /\ r.state.recoverySince # Never => low
              /\ r.state.recoverySince \in {clock, st.recoverySince}
         /\ r.change = "none" => r.state.active /\ r.state.lastNotified = st.lastNotified
         /\ r.change = "recovery" =>
              /\ ~r.state.active /\ r.state.lastNotified = clock /\ low
              /\ \E time \in Alerts!Times : time \in {clock, st.recoverySince}
                   /\ clock - time >= Recovery
<1> DEFINE since == IF st.recoverySince = Never THEN clock ELSE st.recoverySince
           To(s, a, n) == [active |-> a, since |-> Never, recoverySince |-> s,
                           lastObserved |-> st.lastObserved, lastNotified |-> n]
<1>1. since \in Alerts!Times /\ since \in {clock, st.recoverySince} /\ since # Never
  BY DEF Alerts!AlertState, Alerts!Maybe, Alerts!Times, Alerts!Assumptions
<1>2. CASE ~low
  <2>1. r = [state |-> To(Never, TRUE, st.lastNotified), change |-> "none"]
    BY <1>2 DEF Alerts!ActiveAlert, Alerts!AlertState
  <2> QED BY <2>1 DEF Alerts!AlertState, Alerts!Maybe
<1>3. CASE low /\ clock - since >= Recovery
  <2>1. r = [state |-> To(Never, FALSE, clock), change |-> "recovery"]
    BY <1>3 DEF Alerts!ActiveAlert, Alerts!AlertState
  <2> HIDE DEF since
  <2>2. r.state \in Alerts!AlertState
    BY <1>1, <2>1 DEF Alerts!AlertState, Alerts!Maybe
  <2>3. /\ r.change = "recovery" /\ r.state.active = FALSE /\ r.state.lastNotified = clock
        /\ r.state.recoverySince = Never /\ r.state.since = Never
        /\ r.state.lastObserved = st.lastObserved
    BY <2>1
  <2> QED BY <1>1, <1>3, <2>2, <2>3
<1>4. CASE low /\ ~(clock - since >= Recovery)
  <2>1. r = [state |-> To(since, TRUE, st.lastNotified), change |-> "none"]
    BY <1>4 DEF Alerts!ActiveAlert, Alerts!AlertState
  <2> HIDE DEF since
  <2>2. r.state \in Alerts!AlertState
    BY <1>1, <2>1 DEF Alerts!AlertState, Alerts!Maybe
  <2>3. /\ r.change = "none" /\ r.state.active = TRUE /\ r.state.lastNotified = st.lastNotified
        /\ r.state.recoverySince = since /\ r.state.since = Never
        /\ r.state.lastObserved = st.lastObserved
    BY <2>1
  <2> QED BY <1>1, <1>4, <2>2, <2>3
<1> QED BY <1>2, <1>3, <1>4

LEMMA AlertsTransitionIs ==
  ASSUME Alerts!Assumptions, clock \in Alerts!Times, NEW st \in Alerts!AlertState,
         NEW what \in Alerts!Sights, NEW hold \in Nat,
         NEW r, r = Alerts!TransitionAlert(st, what, hold)
  PROVE  /\ r.state \in Alerts!AlertState /\ r.change \in {"none", "trigger", "recovery"}
         /\ r.state.lastObserved \in {clock, Never}
         /\ r.state.lastObserved = Never => r.state.since = Never
              /\ r.state.recoverySince = Never
         /\ r.state.since # Never => what = "high" /\ AlertsKept(st, st.since, r.state.since)
         /\ r.state.recoverySince # Never =>
              what = "low" /\ AlertsKept(st, st.recoverySince, r.state.recoverySince)
         /\ r.change = "none" =>
              r.state.active = st.active /\ r.state.lastNotified = st.lastNotified
         /\ r.change = "trigger" =>
              /\ ~st.active /\ r.state.active /\ r.state.lastNotified = clock /\ what = "high"
              /\ r.state.since \in Alerts!Times /\ clock - r.state.since >= hold
              /\ st.lastNotified # Never => clock - st.lastNotified >= Cooldown
         /\ r.change = "recovery" =>
              /\ st.active /\ ~r.state.active /\ r.state.lastNotified = clock /\ what = "low"
              /\ \E time \in Alerts!Times : AlertsKept(st, st.recoverySince, time)
                   /\ clock - time >= Recovery
<1>1. CASE what = "unknown"
  <2>1. r = [state |-> [active |-> st.active, since |-> Never, recoverySince |-> Never,
                        lastObserved |-> Never, lastNotified |-> st.lastNotified],
             change |-> "none"]
    BY <1>1 DEF Alerts!TransitionAlert, Alerts!AlertState
  <2>2. r.state \in Alerts!AlertState
    BY <2>1 DEF Alerts!AlertState, Alerts!Maybe
  <2>3. /\ r.change = "none" /\ r.state.active = st.active
        /\ r.state.lastNotified = st.lastNotified
        /\ r.state.since = Never /\ r.state.recoverySince = Never
        /\ r.state.lastObserved = Never
    BY <2>1
  <2> QED BY <2>2, <2>3
<1> DEFINE next == Alerts!Observed(st)
<1>2. /\ next \in Alerts!AlertState /\ next.active = st.active
      /\ next.lastNotified = st.lastNotified
      /\ next.lastObserved = clock /\ clock # Never
      /\ next.since # Never => next.since = st.since /\ ~AlertsLate(st)
      /\ next.recoverySince # Never => next.recoverySince = st.recoverySince /\ ~AlertsLate(st)
  BY AlertsObservedIs DEF Alerts!Assumptions, Alerts!Times
<1>3. CASE what # "unknown" /\ st.active
  <2>1. r = Alerts!ActiveAlert(next, what = "low")
    BY <1>3 DEF Alerts!TransitionAlert
  <2> HIDE DEF next
  <2>2. PICK low \in BOOLEAN : low <=> what = "low"
    OBVIOUS
  <2>3. r = Alerts!ActiveAlert(next, low)
    BY <2>1, <2>2
  <2>4. /\ r.state \in Alerts!AlertState /\ r.change \in {"none", "recovery"}
        /\ r.state.lastObserved = next.lastObserved /\ r.state.since = Never
        /\ r.state.recoverySince # Never =>
             low /\ r.state.recoverySince \in {clock, next.recoverySince}
        /\ r.change = "none" => r.state.active /\ r.state.lastNotified = next.lastNotified
        /\ r.change = "recovery" =>
             /\ ~r.state.active /\ r.state.lastNotified = clock /\ low
             /\ \E time \in Alerts!Times : time \in {clock, next.recoverySince}
                  /\ clock - time >= Recovery
    BY <1>2, <1>3, <2>3, AlertsActiveIs
  <2>5. \A time : time # Never /\ time \in {clock, next.recoverySince} =>
          AlertsKept(st, st.recoverySince, time)
    BY <1>2 DEF AlertsKept
  <2>6. \A time \in Alerts!Times : time # Never
    BY DEF Alerts!Times, Alerts!Assumptions
  <2> QED BY <1>2, <1>3, <2>2, <2>4, <2>5, <2>6
<1>4. CASE what # "unknown" /\ ~st.active
  <2>1. r = Alerts!Inactive(next, what = "high", hold)
    BY <1>4 DEF Alerts!TransitionAlert
  <2> HIDE DEF next
  <2>2. PICK high \in BOOLEAN : high <=> what = "high"
    OBVIOUS
  <2>3. r = Alerts!Inactive(next, high, hold)
    BY <2>1, <2>2
  <2>4. /\ r.state \in Alerts!AlertState /\ r.change \in {"none", "trigger"}
        /\ r.state.lastObserved = next.lastObserved /\ r.state.recoverySince = Never
        /\ r.state.since # Never => high /\ r.state.since \in {clock, next.since}
        /\ r.change = "none" => ~r.state.active /\ r.state.lastNotified = next.lastNotified
        /\ r.change = "trigger" =>
             /\ r.state.active /\ r.state.lastNotified = clock /\ high
             /\ r.state.since \in Alerts!Times /\ clock - r.state.since >= hold
             /\ next.lastNotified # Never => clock - next.lastNotified >= Cooldown
    BY <1>2, <1>4, <2>3, AlertsInactiveIs
  <2>5. \A time : time # Never /\ time \in {clock, next.since} => AlertsKept(st, st.since, time)
    BY <1>2 DEF AlertsKept
  <2>6. r.state.since # Never => AlertsKept(st, st.since, r.state.since)
    BY <2>4, <2>5
  <2>7. r.state.active \in BOOLEAN /\ st.active \in BOOLEAN
    BY <2>4 DEF Alerts!AlertState
  <2>8. r.change = "none" => r.state.active = st.active
          /\ r.state.lastNotified = st.lastNotified
    BY <1>2, <1>4, <2>4, <2>7
  <2>9. r.change = "trigger" => (st.lastNotified # Never => clock - st.lastNotified >= Cooldown)
    BY <1>2, <2>4
  <2> QED BY <1>2, <1>4, <2>2, <2>4, <2>6, <2>8, <2>9
<1> QED BY <1>1, <1>3, <1>4

\* The history forgets its oldest entry when it is full.
AlertsFollows(q, e, p, d) ==
  /\ Len(q) \in Nat /\ Len(p) \in Nat \ {0} /\ Remembered \in Nat \ {0}
  /\ p \in Seq(AlertsSeen) /\ Len(p) = Len(q) + 1 - d /\ Len(p) <= Remembered
  /\ d = 1 => Len(q) = Remembered
  /\ p[Len(p)] = e
  /\ \A i \in 1..(Len(p) - 1) : p[i] = q[i + d]

LEMMA AlertsNewestIs ==
  ASSUME Alerts!Assumptions, NEW q \in Seq(AlertsSeen), Len(q) <= Remembered,
         NEW e \in AlertsSeen
  PROVE  \E d \in {0, 1} : AlertsFollows(q, e, Alerts!Newest(Append(q, e)), d)
<1> DEFINE n == Append(q, e)
<1>1. /\ n \in Seq(AlertsSeen) /\ Len(n) = Len(q) + 1 /\ n[Len(n)] = e
      /\ \A i \in 1..Len(q) : n[i] = q[i]
  OBVIOUS
<1>2. Len(q) \in Nat /\ Remembered \in Nat /\ Remembered >= 1
  BY DEF Alerts!Assumptions
<1>3. CASE Len(n) <= Remembered
  <2>1. Alerts!Newest(n) = n
    BY <1>1, <1>2, <1>3 DEF Alerts!Newest
  <2>2. AlertsFollows(q, e, n, 0)
    BY <1>1, <1>2, <1>3 DEF AlertsFollows
  <2> QED BY <2>1, <2>2
<1>4. CASE ~(Len(n) <= Remembered)
  <2>1. Alerts!Newest(n) = Tail(n) /\ Len(q) = Remembered
    BY <1>1, <1>2, <1>4 DEF Alerts!Newest
  <2>2. n # <<>>
    BY <1>1, <1>2
  <2>3. /\ Tail(n) \in Seq(AlertsSeen) /\ Len(Tail(n)) = Len(n) - 1
        /\ \A i \in 1..Len(Tail(n)) : Tail(n)[i] = n[i + 1]
    BY <1>1, <2>2, HeadTailProperties
  <2> HIDE DEF n
  <2>4. AlertsFollows(q, e, Tail(n), 1)
    BY <1>1, <1>2, <2>1, <2>3 DEF AlertsFollows
  <2> QED BY <2>1, <2>4 DEF n
<1> QED BY <1>3, <1>4

LEMMA AlertsSteadyAtOnce ==
  ASSUME Alerts!Assumptions, NEW q \in Seq(AlertsSeen), NEW e \in AlertsSeen, NEW d \in {0, 1},
         NEW p,
         AlertsFollows(q, e, p, d)
  PROVE  AlertsSteady(p, e.what, e.at)
<1>1. Len(p) \in Nat \ {0} /\ p[Len(p)] = e
  BY DEF AlertsFollows
<1> QED BY <1>1 DEF AlertsSteady

LEMMA AlertsSteadyStays ==
  ASSUME Alerts!Assumptions, NEW q \in Seq(AlertsSeen), NEW e \in AlertsSeen, NEW d \in {0, 1},
         NEW p,
         AlertsFollows(q, e, p, d), NEW since, AlertsSteady(q, e.what, since),
         e.at - q[Len(q)].at <= Gap
  PROVE  AlertsSteady(p, e.what, since)
<1>1. /\ Len(q) \in Nat /\ Len(p) \in Nat \ {0} /\ Len(p) = Len(q) + 1 - d /\ p[Len(p)] = e
      /\ \A i \in 1..(Len(p) - 1) : p[i] = q[i + d]
      /\ Remembered \in Nat \ {0} /\ (d = 1 => Len(q) = Remembered)
  BY DEF AlertsFollows
<1>2. PICK i \in 1..Len(q) :
        /\ q[i].at = since \/ Len(q) - i >= Remembered - 1
        /\ \A j \in i..Len(q) : q[j].what = e.what /\ (j > i => q[j].at - q[j - 1].at <= Gap)
  BY DEF AlertsSteady
<1> DEFINE m == IF i > d THEN i - d ELSE 1
<1>3. m \in 1..Len(p) /\ m + d >= i
  BY <1>1
<1>4. p[m].at = since \/ Len(p) - m >= Remembered - 1
  <2>1. CASE i > d
    <3>1. p[m] = q[i]
      BY <1>1, <2>1
    <3> QED BY <1>1, <1>2, <2>1, <3>1
  <2>2. CASE ~(i > d)
    BY <1>1, <2>2
  <2> QED BY <2>1, <2>2
<1> HIDE DEF m
<1>5. ASSUME NEW j \in m..Len(p)
      PROVE  p[j].what = e.what /\ (j > m => p[j].at - p[j - 1].at <= Gap)
  <2>1. CASE j = Len(p)
    <3>1. p[j] = e
      BY <1>1, <2>1
    <3>2. j > m => p[j - 1] = q[Len(q)]
      BY <1>1, <1>3, <2>1
    <3> QED BY <3>1, <3>2
  <2>2. CASE j # Len(p)
    <3>1. j \in 1..(Len(p) - 1) /\ j + d \in i..Len(q) /\ p[j] = q[j + d]
      BY <1>1, <1>3, <2>2
    <3>2. j > m => j - 1 \in 1..(Len(p) - 1) /\ (j - 1) + d = (j + d) - 1 /\ j + d > i
      BY <1>1, <1>3, <2>2
    <3>3. j > m => p[j - 1] = q[(j + d) - 1]
      BY <1>1, <3>2
    <3> QED BY <1>2, <3>1, <3>2, <3>3
  <2> QED BY <2>1, <2>2
<1> QED BY <1>3, <1>4, <1>5 DEF AlertsSteady

\* What an evaluation makes of k, of which it sees what.
AlertsLooked(k, what, r) ==
  /\ r = Alerts!TransitionAlert(state[k], what, Alerts!HoldOf(k)) /\ state'[k] = r.state
  /\ raised'[k] = IF r.change # "none" THEN Append(raised[k], [at |-> clock, kind |-> r.change])
                                       ELSE raised[k]

LEMMA AlertsLooksAtKeys ==
  ASSUME Alerts!Assumptions, AlertsInv, Alerts!Evaluate, NEW k \in Alerts!Keys
  PROVE  \E what \in Alerts!Sights, d \in {0, 1} :
           /\ AlertsFollows(seen[k], [at |-> clock, what |-> what], seen'[k], d)
           /\ \/ k \in Mounts /\ state'[k] = Alerts!NewState /\ raised'[k] = raised[k]
              \/ \E r : AlertsLooked(k, what, r)
<1> DEFINE what == IF k \in Alerts!ActiveKeys THEN Alerts!What(k) ELSE "unknown"
           e == [at |-> clock, what |-> what]
           r == Alerts!TransitionAlert(state[k], Alerts!What(k), Alerts!HoldOf(k))
<1>1. Alerts!What(k) \in Alerts!Sights
  BY DEF AlertsInv, AlertsTypes, Alerts!What, Alerts!Sights, Alerts!Levels, Alerts!Keys,
         Alerts!Offline
<1>2. what \in Alerts!Sights
  BY <1>1 DEF Alerts!Sights
<1>3. e \in AlertsSeen /\ seen[k] \in Seq(AlertsSeen) /\ Len(seen[k]) <= Remembered
  BY <1>2 DEF AlertsInv, AlertsTypes, AlertsDated, AlertsSeen
<1>4. seen'[k] = Alerts!Newest(Append(seen[k], e))
  BY DEF Alerts!Evaluate
<1> HIDE DEF e
<1>5. PICK d \in {0, 1} : AlertsFollows(seen[k], e, seen'[k], d)
  BY <1>3, <1>4, AlertsNewestIs
<1>6. CASE k \notin Alerts!ActiveKeys
  <2>1. k \in Mounts
    BY <1>6 DEF Alerts!ActiveKeys, Alerts!Keys
  <2>2. state'[k] = Alerts!NewState /\ raised'[k] = raised[k]
    BY <1>6 DEF Alerts!Evaluate
  <2> QED BY <1>2, <1>5, <2>1, <2>2 DEF e
<1>7. CASE k \in Alerts!ActiveKeys
  <2>1. /\ state'[k] = r.state
        /\ raised'[k] = IF r.change # "none"
             THEN Append(raised[k], [at |-> clock, kind |-> r.change]) ELSE raised[k]
    BY <1>7 DEF Alerts!Evaluate
  <2>2. AlertsLooked(k, what, r)
    BY <1>7, <2>1 DEF AlertsLooked
  <2> HIDE DEF r, what
  <2> QED BY <1>2, <1>5, <2>2 DEF e
<1> QED BY <1>6, <1>7

LEMMA AlertsEvaluateDates ==
  ASSUME Alerts!Assumptions, AlertsInv, Alerts!Evaluate, NEW k \in Alerts!Keys
  PROVE  AlertsDated(k)'
<1>1. PICK what \in Alerts!Sights, d \in {0, 1} :
        AlertsFollows(seen[k], [at |-> clock, what |-> what], seen'[k], d)
  BY AlertsLooksAtKeys
<1> DEFINE q == seen[k]
           p == seen'[k]
<1>2. /\ Len(q) \in Nat /\ Len(p) \in Nat \ {0} /\ Len(p) = Len(q) + 1 - d
      /\ p \in Seq(AlertsSeen) /\ Len(p) <= Remembered
      /\ p[Len(p)] = [at |-> clock, what |-> what]
      /\ \A i \in 1..(Len(p) - 1) : p[i] = q[i + d]
  BY <1>1 DEF AlertsFollows
<1>3. evaluated' = clock /\ clock \in Alerts!Times /\ evaluated # clock
        /\ evaluated \in Alerts!Maybe(Alerts!Times)
      /\ (evaluated # Never => evaluated <= clock)
  BY DEF Alerts!Evaluate, AlertsInv, AlertsTypes
<1> HIDE DEF q, p
<1>4. ASSUME NEW i \in 1..Len(p) PROVE clock - p[i].at >= Len(p) - i
  <2>1. CASE i = Len(p)
    BY <1>2, <1>3, <2>1, clock - clock = 0 DEF Alerts!Times
  <2>2. CASE i # Len(p)
    <3>1. i + d \in 1..Len(q) /\ p[i] = q[i + d] /\ Len(q) > 0
      BY <1>2, <2>2
    <3>2. evaluated \in Alerts!Times /\ evaluated - q[i + d].at >= Len(q) - (i + d)
      BY <3>1 DEF AlertsInv, AlertsDated, q
    <3>3. evaluated \in Int /\ clock \in Int /\ evaluated < clock
      BY <1>3, <3>2 DEF Alerts!Times, Alerts!Assumptions
    <3>4. q[i + d].at \in Int
      <4>1. q \in Seq(AlertsSeen)
        BY DEF AlertsInv, AlertsDated, q
      <4>2. q[i + d] \in AlertsSeen
        BY <3>1, <4>1, ElementOfSeq
      <4> QED BY <4>2 DEF AlertsSeen, Alerts!Times
    <3> QED BY <1>2, <3>1, <3>2, <3>3, <3>4
  <2> QED BY <2>1, <2>2
<1>5. Len(p) > 0 => clock \in Alerts!Times /\ p[Len(p)].at = clock
  BY <1>2, <1>3
<1> QED BY <1>2, <1>3, <1>4, <1>5 DEF AlertsDated, p

LEMMA AlertsKeptIsSteady ==
  ASSUME Alerts!Assumptions, AlertsInv, NEW k \in Alerts!Keys, NEW what \in Alerts!Sights,
         NEW d \in {0, 1}, NEW p,
         AlertsFollows(seen[k], [at |-> clock, what |-> what], p, d),
         NEW since \in Alerts!Maybe(Alerts!Times), NEW time \in Alerts!Times,
         AlertsKept(state[k], since, time),
         since # Never => AlertsSteady(seen[k], what, since) /\ state[k].lastObserved # Never
  PROVE  AlertsSteady(p, what, time)
<1> DEFINE e == [at |-> clock, what |-> what]
           q == seen[k]
<1>1. e \in AlertsSeen /\ q \in Seq(AlertsSeen) /\ e.at = clock /\ e.what = what
  BY DEF AlertsInv, AlertsTypes, AlertsDated, AlertsSeen
<1> HIDE DEF e
<1>2. CASE time = clock
  BY <1>1, <1>2, AlertsSteadyAtOnce DEF e
<1>3. CASE time # clock
  <2>1. time = since /\ ~AlertsLate(state[k])
    BY <1>3 DEF AlertsKept
  <2>2. since # Never
    BY <2>1 DEF Alerts!Times, Alerts!Assumptions
  <2>3. clock - state[k].lastObserved <= Gap
    BY <2>1, <2>2
       DEF AlertsLate, AlertsInv, AlertsTypes, Alerts!AlertState, Alerts!Maybe, Alerts!Times,
           Alerts!Assumptions
  <2>4. q[Len(q)].at = state[k].lastObserved
    BY <2>2 DEF AlertsInv, AlertsDated, AlertsRests
  <2>5. e.at - q[Len(q)].at <= Gap
    BY <1>1, <2>3, <2>4
  <2> QED BY <1>1, <2>1, <2>2, <2>5, AlertsSteadyStays DEF e
<1> QED BY <1>2, <1>3

LEMMA AlertsEvaluateRests ==
  ASSUME Alerts!Assumptions, AlertsInv, Alerts!Evaluate, NEW k \in Alerts!Keys
  PROVE  AlertsRests(k)'
<1>1. PICK what \in Alerts!Sights, d \in {0, 1} :
        /\ AlertsFollows(seen[k], [at |-> clock, what |-> what], seen'[k], d)
        /\ \/ k \in Mounts /\ state'[k] = Alerts!NewState /\ raised'[k] = raised[k]
           \/ \E r : AlertsLooked(k, what, r)
  BY AlertsLooksAtKeys
<1>2. Len(seen'[k]) > 0 /\ evaluated' = clock
  BY <1>1 DEF AlertsFollows, Alerts!Evaluate
<1>3. CASE state'[k] = Alerts!NewState
  BY <1>3 DEF AlertsRests, Alerts!NewState
<1>4. ASSUME NEW r, AlertsLooked(k, what, r) PROVE AlertsRests(k)'
  <2> DEFINE st == state[k]
  <2>1. st \in Alerts!AlertState /\ clock \in Alerts!Times /\ Alerts!HoldOf(k) \in Nat
    BY DEF AlertsInv, AlertsTypes, Alerts!HoldOf, Alerts!Assumptions
  <2>2. r = Alerts!TransitionAlert(st, what, Alerts!HoldOf(k)) /\ state'[k] = r.state
    BY <1>4 DEF AlertsLooked
  <2>3. /\ r.state \in Alerts!AlertState
        /\ r.state.lastObserved \in {clock, Never}
        /\ r.state.lastObserved = Never => r.state.since = Never
             /\ r.state.recoverySince = Never
        /\ r.state.since # Never => what = "high" /\ AlertsKept(st, st.since, r.state.since)
        /\ r.state.recoverySince # Never =>
             what = "low" /\ AlertsKept(st, st.recoverySince, r.state.recoverySince)
    BY <2>1, <2>2, AlertsTransitionIs
  <2>4. /\ st.since \in Alerts!Maybe(Alerts!Times)
        /\ st.recoverySince \in Alerts!Maybe(Alerts!Times)
        /\ r.state.since \in Alerts!Maybe(Alerts!Times)
        /\ r.state.recoverySince \in Alerts!Maybe(Alerts!Times)
    BY <2>1, <2>3 DEF Alerts!AlertState
  <2>5. /\ st.since # Never => AlertsSteady(seen[k], "high", st.since)
             /\ st.lastObserved # Never
        /\ st.recoverySince # Never =>
             AlertsSteady(seen[k], "low", st.recoverySince) /\ st.lastObserved # Never
    BY DEF AlertsInv, AlertsRests
  <2> HIDE DEF st
  <2>6. ASSUME r.state.since # Never PROVE AlertsSteady(seen'[k], "high", r.state.since)
    <3>1. /\ r.state.since \in Alerts!Times /\ what = "high"
          /\ AlertsKept(state[k], st.since, r.state.since)
      BY <2>3, <2>4, <2>6 DEF Alerts!Maybe, st
    <3> QED BY <1>1, <2>4, <2>5, <3>1, AlertsKeptIsSteady DEF st
  <2>7. ASSUME r.state.recoverySince # Never
        PROVE  AlertsSteady(seen'[k], "low", r.state.recoverySince)
    <3>1. /\ r.state.recoverySince \in Alerts!Times /\ what = "low"
          /\ AlertsKept(state[k], st.recoverySince, r.state.recoverySince)
      BY <2>3, <2>4, <2>7 DEF Alerts!Maybe, st
    <3> QED BY <1>1, <2>4, <2>5, <3>1, AlertsKeptIsSteady DEF st
  <2> QED BY <1>2, <2>2, <2>3, <2>6, <2>7 DEF AlertsRests
<1> QED BY <1>1, <1>3, <1>4

LEMMA AlertsParity == \A n \in Nat : (n + 1) % 2 = (IF n % 2 = 1 THEN 0 ELSE 1)
OBVIOUS

LEMMA AlertsEvaluateTells ==
  ASSUME Alerts!Assumptions, AlertsInv, Alerts!Evaluate, NEW k \in Alerts!Keys
  PROVE  /\ raised'[k] \in Seq(AlertsRaised)
         /\ k \notin Mounts => AlertsNotified(k)' /\ AlertsPacedFor(k)'
<1>1. PICK what \in Alerts!Sights :
        \/ k \in Mounts /\ state'[k] = Alerts!NewState /\ raised'[k] = raised[k]
        \/ \E r : AlertsLooked(k, what, r)
  BY AlertsLooksAtKeys
<1>2. raised[k] \in Seq(AlertsRaised) /\ Len(raised[k]) \in Nat
  BY LenProperties DEF AlertsInv
<1>3. CASE k \in Mounts /\ raised'[k] = raised[k]
  BY <1>2, <1>3
<1>4. ASSUME NEW r, AlertsLooked(k, what, r)
      PROVE  /\ raised'[k] \in Seq(AlertsRaised)
             /\ k \notin Mounts => AlertsNotified(k)' /\ AlertsPacedFor(k)'
  <2> DEFINE st == state[k]
             q == raised[k]
             n == Len(raised[k])
             e == [at |-> clock, kind |-> r.change]
  <2>1. st \in Alerts!AlertState /\ clock \in Alerts!Times /\ Alerts!HoldOf(k) \in Nat
    BY DEF AlertsInv, AlertsTypes, Alerts!HoldOf, Alerts!Assumptions
  <2>2. r = Alerts!TransitionAlert(st, what, Alerts!HoldOf(k)) /\ state'[k] = r.state
    BY <1>4 DEF AlertsLooked
  <2>3. /\ r.state \in Alerts!AlertState /\ r.change \in {"none", "trigger", "recovery"}
        /\ r.change = "none" => r.state.active = st.active
             /\ r.state.lastNotified = st.lastNotified
        /\ r.change = "trigger" =>
             /\ ~st.active /\ r.state.active /\ r.state.lastNotified = clock
             /\ st.lastNotified # Never => clock - st.lastNotified >= Cooldown
        /\ r.change = "recovery" => st.active /\ ~r.state.active /\ r.state.lastNotified = clock
    BY <2>1, <2>2, AlertsTransitionIs
  <2>4. raised'[k] = IF r.change # "none" THEN Append(q, e) ELSE q
    BY <1>4 DEF AlertsLooked
  <2>5. CASE r.change = "none"
    <3>1. /\ raised'[k] = q /\ state'[k].active = st.active
          /\ state'[k].lastNotified = st.lastNotified
      BY <2>2, <2>3, <2>4, <2>5
    <3>2. k \notin Mounts => AlertsNotified(k) /\ AlertsPacedFor(k)
      BY DEF AlertsInv
    <3> QED BY <1>2, <3>1, <3>2 DEF AlertsNotified, AlertsPacedFor
  <2>6. CASE r.change # "none"
    <3>1. e \in AlertsRaised /\ e.at = clock /\ e.kind = r.change
      BY <2>1, <2>3, <2>6 DEF AlertsRaised
    <3> HIDE DEF e
    <3>2. /\ raised'[k] \in Seq(AlertsRaised) /\ Len(raised'[k]) = n + 1
          /\ raised'[k][n + 1] = e
          /\ \A i \in 1..n : raised'[k][i] = q[i]
      BY <1>2, <2>4, <2>6, <3>1
    <3>3. raised'[k] # <<>>
      BY <1>2, <3>2
    <3> SUFFICES ASSUME k \notin Mounts PROVE AlertsNotified(k)' /\ AlertsPacedFor(k)'
      BY <3>2
    <3>4. AlertsNotified(k) /\ AlertsPacedFor(k)
      BY DEF AlertsInv
    <3>5. st.active <=> n % 2 = 1
      <4>1. CASE q = <<>>
        BY <3>4, <4>1 DEF AlertsNotified
      <4>2. CASE q # <<>>
        BY <3>4, <4>2 DEF AlertsNotified
      <4> QED BY <4>1, <4>2
    <3>6. e.kind = IF (n + 1) % 2 = 1 THEN "trigger" ELSE "recovery"
      <4>1. n \in Nat
        BY <1>2
      <4> HIDE DEF n
      <4>2. (n + 1) % 2 = (IF n % 2 = 1 THEN 0 ELSE 1)
        BY <4>1, AlertsParity
      <4> QED BY <2>3, <2>6, <3>1, <3>5, <4>2
    <3>7. n > 0 => st.lastNotified = q[n].at
      <4>1. n > 0 => q # <<>>
        BY <1>2
      <4> QED BY <3>4, <4>1 DEF AlertsNotified
    <3>8. n > 0 => st.lastNotified # Never
      <4>1. ASSUME n > 0 PROVE q[n] \in AlertsRaised
        BY <1>2, <4>1, ElementOfSeq
      <4> QED BY <3>7, <4>1 DEF AlertsRaised, Alerts!Times, Alerts!Assumptions
    <3>9. n > 0 /\ e.kind = "trigger" => e.at - q[n].at >= Cooldown
      BY <2>3, <3>1, <3>7, <3>8
    <3>10. AlertsNotified(k)'
      <4>1. r.state.active <=> (n + 1) % 2 = 1
        BY <2>3, <2>6, <3>1, <3>6
      <4> HIDE DEF n
      <4> QED BY <2>2, <2>3, <2>6, <3>1, <3>2, <3>3, <4>1 DEF AlertsNotified
    <3>11. ASSUME NEW i \in 1..(n + 1)
           PROVE  /\ raised'[k][i].kind = IF i % 2 = 1 THEN "trigger" ELSE "recovery"
                  /\ i > 1 /\ raised'[k][i].kind = "trigger" =>
                       raised'[k][i].at - raised'[k][i - 1].at >= Cooldown
      <4>1. CASE i = n + 1
        <5>1. i > 1 => raised'[k][i - 1] = q[n] /\ n > 0
          BY <1>2, <3>2, <4>1
        <5> QED BY <3>2, <3>6, <3>9, <4>1, <5>1
      <4>2. CASE i # n + 1
        <5>1. i \in 1..n /\ (i > 1 => i - 1 \in 1..n)
          BY <1>2, <4>2
        <5>2. raised'[k][i] = q[i] /\ (i > 1 => raised'[k][i - 1] = q[i - 1])
          BY <3>2, <5>1
        <5> QED BY <3>4, <5>1, <5>2 DEF AlertsPacedFor
      <4> QED BY <4>1, <4>2
    <3> QED BY <3>2, <3>10, <3>11 DEF AlertsPacedFor
  <2> QED BY <2>5, <2>6
<1> QED BY <1>1, <1>3, <1>4

\* What an evaluation raises has been seen for its whole time.
LEMMA AlertsEvaluateSustains ==
  ASSUME Alerts!Assumptions, AlertsInv, Alerts!Evaluate, NEW k \in Alerts!Keys,
         Len(raised'[k]) > Len(raised[k])
  PROVE  IF Alerts!Last(raised'[k]).kind = "trigger"
         THEN Alerts!SeenFor(k, "high", Alerts!HoldOf(k))'
                ELSE Alerts!SeenFor(k, "low", Recovery)'
<1>1. PICK what \in Alerts!Sights, d \in {0, 1} :
        /\ AlertsFollows(seen[k], [at |-> clock, what |-> what], seen'[k], d)
        /\ \/ raised'[k] = raised[k]
           \/ \E r : AlertsLooked(k, what, r)
  BY AlertsLooksAtKeys
<1>2. raised[k] \in Seq(AlertsRaised) /\ Len(raised[k]) \in Nat
  BY LenProperties DEF AlertsInv
<1>3. PICK r : AlertsLooked(k, what, r)
  BY <1>1, <1>2
<1> DEFINE st == state[k]
           p == seen'[k]
<1>4. st \in Alerts!AlertState /\ clock \in Alerts!Times /\ Alerts!HoldOf(k) \in Nat
  BY DEF AlertsInv, AlertsTypes, Alerts!HoldOf, Alerts!Assumptions
<1>5. r = Alerts!TransitionAlert(st, what, Alerts!HoldOf(k)) /\ state'[k] = r.state
  BY <1>3 DEF AlertsLooked
<1>6. /\ r.state \in Alerts!AlertState /\ r.change \in {"none", "trigger", "recovery"}
      /\ r.state.since # Never => what = "high" /\ AlertsKept(st, st.since, r.state.since)
      /\ r.change = "trigger" =>
           what = "high" /\ r.state.since \in Alerts!Times
             /\ clock - r.state.since >= Alerts!HoldOf(k)
      /\ r.change = "recovery" =>
           /\ what = "low"
           /\ \E time \in Alerts!Times : AlertsKept(st, st.recoverySince, time)
                /\ clock - time >= Recovery
  BY <1>4, <1>5, AlertsTransitionIs
<1>7. r.change # "none" /\ Alerts!Last(raised'[k]).kind = r.change
  <2>1. r.change # "none" /\ raised'[k] = Append(raised[k], [at |-> clock, kind |-> r.change])
    BY <1>2, <1>3 DEF AlertsLooked
  <2>2. [at |-> clock, kind |-> r.change] \in AlertsRaised
    BY <1>4, <1>6, <2>1 DEF AlertsRaised
  <2>3. Alerts!Last(raised'[k]) = [at |-> clock, kind |-> r.change]
    BY <1>2, <2>1, <2>2 DEF Alerts!Last
  <2> QED BY <2>1, <2>3
<1>8. /\ st.since # Never => AlertsSteady(seen[k], "high", st.since) /\ st.lastObserved # Never
      /\ st.recoverySince # Never =>
           AlertsSteady(seen[k], "low", st.recoverySince) /\ st.lastObserved # Never
      /\ st.since \in Alerts!Maybe(Alerts!Times)
      /\ st.recoverySince \in Alerts!Maybe(Alerts!Times)
  BY <1>4 DEF AlertsInv, AlertsRests, Alerts!AlertState
<1>9. /\ AlertsDated(k)' /\ evaluated' = clock
      /\ Len(p) \in Nat \ {0} /\ p[Len(p)] = [at |-> clock, what |-> what]
  BY <1>1, AlertsEvaluateDates DEF AlertsFollows, Alerts!Evaluate
<1>10. ASSUME NEW sight, NEW time \in Alerts!Times, NEW duration \in Nat, duration < Remembered,
              AlertsSteady(p, sight, time), clock - time >= duration
       PROVE  Alerts!SeenFor(k, sight, duration)'
  <2>1. PICK i \in 1..Len(p) :
          /\ p[i].at = time \/ Len(p) - i >= Remembered - 1
          /\ \A j \in i..Len(p) : p[j].what = sight /\ (j > i => p[j].at - p[j - 1].at <= Gap)
    BY <1>10 DEF AlertsSteady
  <2>2. clock - p[i].at >= Len(p) - i /\ p \in Seq(AlertsSeen)
    BY <1>9 DEF AlertsDated
  <2>3. p[i].at \in Int /\ clock \in Int /\ Remembered \in Int
    <3>1. p[i] \in AlertsSeen
      BY <2>2, ElementOfSeq
    <3> QED BY <1>4, <3>1 DEF AlertsSeen, Alerts!Times, Alerts!Assumptions
  <2>4. clock - p[i].at >= duration
    <3> HIDE DEF p
    <3> QED BY <1>9, <1>10, <2>1, <2>2, <2>3
  <2>5. Alerts!Last(p) = p[Len(p)] /\ p[Len(p)].at = clock /\ DOMAIN p = 1..Len(p)
    BY <1>9, <2>2 DEF Alerts!Last
  <2> HIDE DEF p
  <2> QED BY <2>1, <2>4, <2>5 DEF Alerts!SeenFor, p
<1> HIDE DEF st, p
<1>11. Alerts!HoldOf(k) < Remembered /\ Recovery \in Nat /\ Recovery < Remembered
  BY DEF Alerts!HoldOf, Alerts!Assumptions
<1>12. CASE r.change = "trigger"
  <2>1. r.state.since # Never
    BY <1>6, <1>12 DEF Alerts!Times, Alerts!Assumptions
  <2>2. AlertsSteady(p, "high", r.state.since)
    BY <1>1, <1>6, <1>8, <1>12, <2>1, AlertsKeptIsSteady DEF st, p
  <2> QED BY <1>4, <1>6, <1>7, <1>10, <1>11, <1>12, <2>2
<1>13. CASE r.change = "recovery"
  <2>1. PICK time \in Alerts!Times : AlertsKept(st, st.recoverySince, time)
               /\ clock - time >= Recovery
    BY <1>6, <1>13
  <2>2. AlertsSteady(p, "low", time)
    BY <1>1, <1>6, <1>8, <1>13, <2>1, AlertsKeptIsSteady DEF st, p
  <2> QED BY <1>7, <1>10, <1>11, <1>13, <2>1, <2>2
<1> QED BY <1>6, <1>7, <1>12, <1>13

LEMMA AlertsInitHolds == ASSUME Alerts!Assumptions, Alerts!Init PROVE AlertsInv
<1>1. AlertsTypes
  <2>1. Alerts!NewState \in Alerts!AlertState
    BY DEF Alerts!NewState, Alerts!AlertState, Alerts!Maybe
  <2>2. /\ state \in [Alerts!Keys -> Alerts!AlertState]
        /\ values \in [Metrics \cup Mounts -> Alerts!Levels]
    BY <2>1 DEF Alerts!Init, Alerts!Levels
  <2>3. clock \in Alerts!Times /\ 0 \in 0..MaxChanges
    BY DEF Alerts!Assumptions, Alerts!Init, Alerts!Times
  <2> QED BY <2>2, <2>3 DEF Alerts!Init, AlertsTypes, Alerts!Maybe
<1>2. ASSUME NEW k \in Alerts!Keys
      PROVE  AlertsDated(k) /\ AlertsRests(k) /\ raised[k] \in Seq(AlertsRaised)
               /\ AlertsNotified(k) /\ AlertsPacedFor(k)
  <2>1. seen[k] = <<>> /\ raised[k] = <<>> /\ state[k] = Alerts!NewState
    BY DEF Alerts!Init
  <2> QED BY <2>1
             DEF Alerts!Assumptions, AlertsDated, AlertsRests, AlertsNotified, AlertsPacedFor,
                 Alerts!NewState
<1> QED BY <1>1, <1>2 DEF AlertsInv

LEMMA AlertsNextKeeps ==
  ASSUME Alerts!Assumptions, AlertsInv, [Alerts!Next]_(Alerts!vars)
  PROVE  AlertsInv'
<1>1. CASE Alerts!Evaluate
  <2>1. AlertsTypes'
    <3>1. state' \in [Alerts!Keys -> Alerts!AlertState]
      <4>1. ASSUME NEW k \in Alerts!Keys PROVE state'[k] \in Alerts!AlertState
        <5>1. PICK what \in Alerts!Sights :
                state'[k] = Alerts!NewState \/ \E r : AlertsLooked(k, what, r)
          BY <1>1, AlertsLooksAtKeys
        <5>2. Alerts!NewState \in Alerts!AlertState
          BY DEF Alerts!NewState, Alerts!AlertState, Alerts!Maybe
        <5>3. ASSUME NEW r, AlertsLooked(k, what, r) PROVE state'[k] \in Alerts!AlertState
          BY <5>3, AlertsTransitionIs
             DEF AlertsLooked, AlertsInv, AlertsTypes, Alerts!HoldOf, Alerts!Assumptions
        <5> QED BY <5>1, <5>2, <5>3
      <4> QED BY <1>1, <4>1 DEF Alerts!Evaluate
    <3> QED BY <1>1, <3>1
               DEF AlertsInv, AlertsTypes, Alerts!Evaluate, Alerts!Maybe, Alerts!Times,
                   Alerts!Assumptions
  <2> QED BY <1>1, <2>1, AlertsEvaluateDates, AlertsEvaluateRests, AlertsEvaluateTells
             DEF AlertsInv, Alerts!Keys, Alerts!Offline
<1>2. CASE Alerts!AlertsSave
  <2>1. AlertsTypes'
    BY <1>2
       DEF Alerts!AlertsSave, AlertsInv, AlertsTypes, Alerts!Assumptions, Alerts!AlertState,
           Alerts!NewState, Alerts!Maybe
  <2>2. ASSUME NEW k \in Alerts!Keys
        PROVE  AlertsDated(k)' /\ AlertsRests(k)' /\ raised'[k] \in Seq(AlertsRaised)
                 /\ AlertsNotified(k)' /\ AlertsPacedFor(k)'
    <3>1. seen'[k] = <<>> /\ raised'[k] = <<>> /\ state'[k] = Alerts!NewState
      BY <1>2 DEF Alerts!AlertsSave
    <3> QED BY <3>1
               DEF Alerts!Assumptions, AlertsDated, AlertsRests, AlertsNotified, AlertsPacedFor,
                   Alerts!NewState
  <2> QED BY <2>1, <2>2 DEF AlertsInv, Alerts!Keys
<1>3. CASE UNCHANGED <<state, evaluated, seen, raised>> /\ (AlertsTypes)'
  BY <1>3 DEF AlertsInv, AlertsDated, AlertsRests, AlertsNotified, AlertsPacedFor, Alerts!Keys
<1>4. CASE Alerts!Tick
  BY <1>3, <1>4
     DEF Alerts!Tick, AlertsInv, AlertsTypes, Alerts!Times, Alerts!Maybe, Alerts!Assumptions
<1>5. CASE Alerts!Rebind
  BY <1>3, <1>5 DEF Alerts!Rebind, AlertsInv, AlertsTypes, Alerts!Maybe
<1>6. CASE Alerts!Mute
  BY <1>3, <1>6 DEF Alerts!Mute, AlertsInv, AlertsTypes, Alerts!Assumptions
<1>7. ASSUME NEW value \in [Metrics \cup Mounts -> Alerts!Levels], NEW fresh \in BOOLEAN,
             Alerts!Report(value, fresh)
      PROVE  AlertsInv'
  BY <1>3, <1>7 DEF Alerts!Report, AlertsInv, AlertsTypes, Alerts!Maybe
<1>8. CASE UNCHANGED Alerts!vars
  BY <1>3, <1>8 DEF Alerts!vars, AlertsInv, AlertsTypes
<1> QED BY <1>1, <1>2, <1>4, <1>5, <1>6, <1>7, <1>8 DEF Alerts!Next

\* Only an evaluation raises something.
LEMMA AlertsNextSustains ==
  ASSUME Alerts!Assumptions, AlertsInv, [Alerts!Next]_(Alerts!vars), NEW k \in Alerts!Keys,
         Len(raised'[k]) > Len(raised[k])
  PROVE  IF Alerts!Last(raised'[k]).kind = "trigger"
         THEN Alerts!SeenFor(k, "high", Alerts!HoldOf(k))'
                ELSE Alerts!SeenFor(k, "low", Recovery)'
<1>1. Len(raised[k]) \in Nat
  BY LenProperties DEF AlertsInv
<1>2. CASE Alerts!Evaluate
  BY <1>2, AlertsEvaluateSustains
<1>3. CASE UNCHANGED raised
  BY <1>1, <1>3
<1>4. CASE Alerts!AlertsSave
  <2>1. Len(raised'[k]) = 0
    BY <1>4 DEF Alerts!AlertsSave
  <2> QED BY <1>1, <2>1
<1> QED BY <1>2, <1>3, <1>4
           DEF Alerts!Next, Alerts!vars, Alerts!Tick, Alerts!Rebind, Alerts!Mute, Alerts!Report

LEMMA AlertsInvTyped == ASSUME AlertsInv PROVE Alerts!TypeOK
BY DEF AlertsInv, AlertsTypes, AlertsDated, AlertsSeen, AlertsRaised, Alerts!TypeOK

LEMMA AlertsInvTells ==
  ASSUME Alerts!Assumptions, AlertsInv, Mounts = {}
  PROVE  Alerts!Paced /\ Alerts!ActiveUntilRecovered
<1> SUFFICES ASSUME NEW k \in Alerts!Keys
             PROVE  /\ \A i \in DOMAIN raised[k] :
                         /\ raised[k][i].kind = IF i % 2 = 1 THEN "trigger" ELSE "recovery"
                         /\ i > 1 /\ raised[k][i].kind = "trigger" =>
                              raised[k][i].at - raised[k][i - 1].at >= Cooldown
                    /\ raised[k] # <<>> /\ Alerts!Last(raised[k]).kind = "trigger"
                         => state[k].active
  BY DEF Alerts!Paced, Alerts!ActiveUntilRecovered
<1>1. raised[k] \in Seq(AlertsRaised) /\ AlertsNotified(k) /\ AlertsPacedFor(k)
  BY DEF AlertsInv
<1>2. DOMAIN raised[k] = 1..Len(raised[k]) /\ Len(raised[k]) \in Nat
  BY <1>1
<1>3. ASSUME raised[k] # <<>>, Alerts!Last(raised[k]).kind = "trigger" PROVE state[k].active
  <2>1. Len(raised[k]) > 0 /\ Alerts!Last(raised[k]) = raised[k][Len(raised[k])]
    BY <1>1, <1>2, <1>3, EmptySeq DEF Alerts!Last
  <2>2. Len(raised[k]) \in 1..Len(raised[k]) /\ raised[k][Len(raised[k])].kind = "trigger"
    BY <1>2, <1>3, <2>1
  <2>3. Len(raised[k]) % 2 = 1
    BY <1>1, <2>2, "trigger" # "recovery" DEF AlertsPacedFor
  <2> QED BY <1>1, <1>3, <2>3 DEF AlertsNotified
<1> QED BY <1>1, <1>2, <1>3 DEF AlertsPacedFor

-----------------------------------------------------------------------------
(* The deliveries of alerts: AlertDeliveries *)

LEMMA DeliveriesCounts == \A S : Deliveries!Cardinality(S) = Cardinality(S)
BY DEF Deliveries!Cardinality, Cardinality

DeliveriesTyped ==
  /\ rows \in [Deliveries!Deliveries -> Deliveries!Row]
  /\ wanted \in BOOLEAN /\ settings \in BOOLEAN
  /\ outcome \in Deliveries!Outcomes
  /\ saves \in 0..MaxChanges /\ aborts \in 0..MaxAborts
  /\ accepted \in [Deliveries!Deliveries -> Nat] /\ unsure \in [Deliveries!Deliveries -> Nat]

\* What the worker has read is still pending, each row once.
DeliveriesBatchOK ==
  /\ batch \in Seq(Deliveries!Deliveries) /\ Len(batch) <= BatchSize
  /\ \A i \in 1..Len(batch) : rows[batch[i]].status = "pending"
  /\ \A i, j \in 1..Len(batch) : batch[i] = batch[j] => i = j
  /\ batch = <<>> => outcome = "unsent"

\* A row that is pending has an attempt left.
DeliveriesAttemptsLeft ==
  \A d \in Deliveries!Deliveries : rows[d].status = "pending" => rows[d].attempts <= MaxRetries

\* The receiver may have an event once more than the worker has lost an answer: when the row
\* has ended, or the worker is about to note that it has the answer.
DeliveriesMayHave(d) ==
  \/ rows[d].status \in Deliveries!Ends
  \/ batch # <<>> /\ outcome = "ok" /\ d = batch[1]

DeliveriesHasBeenTaken ==
  \A d \in Deliveries!Deliveries :
    /\ rows[d].status = "none" => accepted[d] = 0
    /\ accepted[d] <= 1 + unsure[d]
    /\ ~DeliveriesMayHave(d) => accepted[d] <= unsure[d]

DeliveriesInv ==
  DeliveriesTyped /\ DeliveriesBatchOK /\ DeliveriesAttemptsLeft /\ DeliveriesHasBeenTaken

LEMMA DeliveriesInvTyped == ASSUME DeliveriesInv PROVE Deliveries!TypeOK
BY DEF DeliveriesInv, DeliveriesTyped, DeliveriesBatchOK, Deliveries!TypeOK

LEMMA DeliveriesInitHolds == ASSUME Deliveries!Assumptions, Deliveries!Init PROVE DeliveriesInv
BY DEF Deliveries!Assumptions, Deliveries!Init, DeliveriesInv, DeliveriesTyped,
       DeliveriesBatchOK, DeliveriesAttemptsLeft, DeliveriesHasBeenTaken, DeliveriesMayHave,
       Deliveries!Row, Deliveries!NoRow, Deliveries!Ends, Deliveries!Outcomes

LEMMA DeliveriesRaiseKeeps ==
  ASSUME Deliveries!Assumptions, DeliveriesInv, NEW d \in Deliveries!Deliveries,
         Deliveries!Raise(d) PROVE DeliveriesInv'
<1>1. DeliveriesTyped'
  BY DEF Deliveries!Assumptions, DeliveriesInv, DeliveriesTyped, Deliveries!Raise,
         Deliveries!Row
<1>2. /\ \A e \in Deliveries!Deliveries \ {d} : rows'[e] = rows[e]
      /\ rows'[d].status = "pending" /\ rows'[d].attempts = 0 /\ rows[d].status = "none"
  BY DEF DeliveriesInv, DeliveriesTyped, Deliveries!Raise
<1>3. \A i \in 1..Len(batch) : batch[i] \in Deliveries!Deliveries \ {d}
  BY <1>2, ElementOfSeq DEF DeliveriesInv, DeliveriesBatchOK
<1>4. DeliveriesBatchOK'
  BY <1>2, <1>3 DEF DeliveriesInv, DeliveriesBatchOK, Deliveries!Raise
<1>5. DeliveriesAttemptsLeft'
  BY <1>2 DEF Deliveries!Assumptions, DeliveriesInv, DeliveriesAttemptsLeft
<1>6. DeliveriesHasBeenTaken'
  <2>1. batch' = batch /\ outcome' = outcome /\ accepted' = accepted /\ unsure' = unsure
    BY DEF Deliveries!Raise
  <2>2. \A e \in Deliveries!Deliveries : accepted[e] \in Nat /\ unsure[e] \in Nat
    BY DEF DeliveriesInv, DeliveriesTyped
  <2>3. \A e \in Deliveries!Deliveries \ {d} : DeliveriesMayHave(e)' <=> DeliveriesMayHave(e)
    BY <1>2, <2>1 DEF DeliveriesMayHave
  <2> QED BY <1>2, <2>1, <2>2, <2>3 DEF DeliveriesInv, DeliveriesHasBeenTaken
<1> QED BY <1>1, <1>4, <1>5, <1>6 DEF DeliveriesInv

LEMMA DeliveriesElapseKeeps ==
  ASSUME Deliveries!Assumptions, DeliveriesInv, NEW d \in Deliveries!Deliveries,
         Deliveries!Elapse(d) PROVE DeliveriesInv'
<1>1. DeliveriesTyped'
  BY DEF Deliveries!Assumptions, DeliveriesInv, DeliveriesTyped, Deliveries!Elapse,
         Deliveries!Row
<1>2. \A e \in Deliveries!Deliveries : rows'[e].status = rows[e].status
        /\ rows'[e].attempts = rows[e].attempts
  BY DEF DeliveriesInv, DeliveriesTyped, Deliveries!Elapse, Deliveries!Row
<1>3. DeliveriesBatchOK'
  BY <1>2, ElementOfSeq DEF DeliveriesInv, DeliveriesBatchOK, Deliveries!Elapse
<1>4. DeliveriesAttemptsLeft'
  BY <1>2 DEF DeliveriesInv, DeliveriesAttemptsLeft
<1>5. DeliveriesHasBeenTaken'
  BY <1>2 DEF DeliveriesInv, DeliveriesHasBeenTaken, DeliveriesMayHave, Deliveries!Elapse
<1> QED BY <1>1, <1>3, <1>4, <1>5 DEF DeliveriesInv

LEMMA DeliveriesChangeKeeps ==
  ASSUME Deliveries!Assumptions, DeliveriesInv, Deliveries!ChangeSettings
  PROVE  DeliveriesInv'
BY DEF Deliveries!Assumptions, DeliveriesInv, DeliveriesTyped, DeliveriesBatchOK,
       DeliveriesAttemptsLeft, DeliveriesHasBeenTaken, DeliveriesMayHave,
       Deliveries!ChangeSettings

LEMMA DeliveriesBatchFits == ASSUME Deliveries!Assumptions PROVE
  Deliveries!Min({BatchSize, Deliveries!Cardinality(Deliveries!Due)}) \in Nat
    /\ Deliveries!Min({BatchSize, Deliveries!Cardinality(Deliveries!Due)}) <= BatchSize
<1>1. IsFiniteSet(Deliveries!Due)
  <2>1. IsFiniteSet(1..MaxDeliveries)
    BY FS_Interval DEF Deliveries!Assumptions
  <2>2. Deliveries!Due \subseteq 1..MaxDeliveries
    BY DEF Deliveries!Due, Deliveries!Pending, Deliveries!Deliveries
  <2> QED BY <2>1, <2>2, FS_Subset
<1>2. Deliveries!Cardinality(Deliveries!Due) \in Nat
  BY DeliveriesCounts, <1>1, FS_CardinalityType
<1> QED BY <1>2 DEF Deliveries!Assumptions, Deliveries!Min

LEMMA DeliveriesReadKeeps ==
  ASSUME Deliveries!Assumptions, DeliveriesInv, Deliveries!ReadBatch
  PROVE  DeliveriesInv'
<1> DEFINE size == Deliveries!Min({BatchSize, Deliveries!Cardinality(Deliveries!Due)})
<1>1. size \in Nat /\ size <= BatchSize
  BY DeliveriesBatchFits
<1> HIDE DEF size
<1>2. PICK read \in [1..size -> Deliveries!Due] :
        /\ batch = <<>> /\ batch' = read
        /\ \A i, j \in DOMAIN read : i < j => read[i] < read[j]
        /\ settings' = wanted
        /\ UNCHANGED <<rows, wanted, outcome, saves, aborts, accepted, unsure>>
  BY DEF Deliveries!ReadBatch, size
<1>3. read \in Seq(Deliveries!Due) /\ Len(read) = size /\ DOMAIN read = 1..size
  BY <1>1, <1>2
<1>4. Deliveries!Due \subseteq Deliveries!Deliveries /\ Deliveries!Deliveries \subseteq Nat
        /\ \A d \in Deliveries!Due : rows[d].status = "pending"
  BY DEF Deliveries!Due, Deliveries!Pending, Deliveries!Deliveries
<1>5. DeliveriesTyped'
  BY <1>2 DEF DeliveriesInv, DeliveriesTyped
<1>6. DeliveriesBatchOK'
  <2>1. /\ read \in Seq(Deliveries!Deliveries)
        /\ \A i \in 1..size : rows[read[i]].status = "pending" /\ read[i] \in Nat
    <3>1. read \in [1..size -> Deliveries!Deliveries]
      BY <1>2, <1>4
    <3>2. read \in Seq(Deliveries!Deliveries)
      BY <1>1, <3>1
    <3> QED BY <1>2, <1>4, <3>2
  <2>2. ASSUME NEW i \in 1..size, NEW j \in 1..size, read[i] = read[j] PROVE i = j
    BY <1>1, <1>2, <1>3, <2>1, <2>2
  <2>3. outcome = "unsent"
    BY <1>2 DEF DeliveriesInv, DeliveriesBatchOK
  <2> QED BY <1>1, <1>2, <1>3, <2>1, <2>2, <2>3 DEF DeliveriesBatchOK
<1>7. DeliveriesAttemptsLeft'
  BY <1>2 DEF DeliveriesInv, DeliveriesAttemptsLeft
<1>8. DeliveriesHasBeenTaken'
  <2>1. outcome = "unsent" /\ outcome' = "unsent"
    BY <1>2 DEF DeliveriesInv, DeliveriesBatchOK
  <2>2. \A d \in Deliveries!Deliveries : DeliveriesMayHave(d)' <=> DeliveriesMayHave(d)
    BY <1>2, <2>1 DEF DeliveriesMayHave
  <2> QED BY <1>2, <2>2 DEF DeliveriesInv, DeliveriesHasBeenTaken
<1> QED BY <1>5, <1>6, <1>7, <1>8 DEF DeliveriesInv

\* What is left of the batch, when its first row is done.
LEMMA DeliveriesRestOfBatch ==
  ASSUME Deliveries!Assumptions, DeliveriesBatchOK, batch # <<>>
  PROVE  /\ Head(batch) = batch[1] /\ batch[1] \in Deliveries!Deliveries
         /\ Tail(batch) \in Seq(Deliveries!Deliveries) /\ Len(Tail(batch)) <= BatchSize
         /\ \A i \in 1..Len(Tail(batch)) :
              Tail(batch)[i] # batch[1] /\ rows[Tail(batch)[i]].status = "pending"
         /\ \A i, j \in 1..Len(Tail(batch)) : Tail(batch)[i] = Tail(batch)[j] => i = j
<1>1. batch \in Seq(Deliveries!Deliveries) /\ Len(batch) \in Nat /\ Len(batch) # 0
  BY LenProperties, EmptySeq DEF DeliveriesBatchOK
<1>2. /\ Tail(batch) \in Seq(Deliveries!Deliveries) /\ Len(Tail(batch)) = Len(batch) - 1
      /\ \A i \in 1..Len(Tail(batch)) : Tail(batch)[i] = batch[i + 1]
      /\ Head(batch) = batch[1]
  BY <1>1, HeadTailProperties
<1>3. 1 \in 1..Len(batch) /\ \A i \in 1..Len(Tail(batch)) : i + 1 \in 1..Len(batch) /\ i + 1 # 1
  BY <1>1, <1>2
<1>4. Len(Tail(batch)) <= BatchSize
  BY <1>1, <1>2 DEF Deliveries!Assumptions, DeliveriesBatchOK
<1>5. batch[1] \in Deliveries!Deliveries
  BY <1>1, <1>3, ElementOfSeq
<1>6. ASSUME NEW i \in 1..Len(Tail(batch))
      PROVE  Tail(batch)[i] # batch[1] /\ rows[Tail(batch)[i]].status = "pending"
  BY <1>2, <1>3, <1>6 DEF DeliveriesBatchOK
<1>7. ASSUME NEW i \in 1..Len(Tail(batch)), NEW j \in 1..Len(Tail(batch)),
             Tail(batch)[i] = Tail(batch)[j]
      PROVE  i = j
  <2>1. i + 1 = j + 1
    BY <1>2, <1>3, <1>7 DEF DeliveriesBatchOK
  <2>2. i \in Int /\ j \in Int
    OBVIOUS
  <2> QED BY <2>1, <2>2
<1> QED BY <1>2, <1>4, <1>5, <1>6, <1>7

LEMMA DeliveriesUpdateKeeps ==
  ASSUME Deliveries!Assumptions, DeliveriesInv, batch # <<>>, NEW how \in {"pending"}
           \cup Deliveries!Ends, NEW attempts \in Nat,
         attempts <= MaxRetries + 1, how = "pending" => attempts <= MaxRetries
           /\ outcome = "error",
         Deliveries!Update(Head(batch), how, attempts),
         UNCHANGED <<wanted, settings, saves, aborts, accepted, unsure>>
  PROVE  DeliveriesInv'
<1>0. PICK h \in Deliveries!Deliveries : h = batch[1]
  BY DeliveriesRestOfBatch DEF DeliveriesInv
<1>1. /\ Head(batch) = h
      /\ batch' = Tail(batch) /\ outcome' = "unsent"
      /\ rows' = [rows EXCEPT ![h] = [status |-> how, attempts |-> attempts, due |-> FALSE]]
  BY DeliveriesRestOfBatch, <1>0 DEF DeliveriesInv, Deliveries!Update
<1>2. /\ \A e \in Deliveries!Deliveries \ {h} : rows'[e] = rows[e]
      /\ rows'[h].status = how /\ rows'[h].attempts = attempts
  BY <1>1 DEF DeliveriesInv, DeliveriesTyped
<1>3. rows[h].status = "pending"
  <2>1. 1 \in 1..Len(batch)
    BY LenProperties, EmptySeq DEF DeliveriesInv, DeliveriesBatchOK
  <2> QED BY <1>0, <2>1 DEF DeliveriesInv, DeliveriesBatchOK
<1>4. DeliveriesTyped'
  <2>1. [status |-> how, attempts |-> attempts, due |-> FALSE] \in Deliveries!Row
    BY DEF Deliveries!Row, Deliveries!Assumptions
  <2> QED BY <1>1, <2>1 DEF DeliveriesInv, DeliveriesTyped, Deliveries!Outcomes
<1>5. DeliveriesBatchOK'
  <2>1. \A i \in 1..Len(Tail(batch)) : Tail(batch)[i] \in Deliveries!Deliveries \ {h}
    BY DeliveriesRestOfBatch, ElementOfSeq, <1>0 DEF DeliveriesInv
  <2>2. \A i \in 1..Len(batch') : rows'[batch'[i]].status = "pending"
    BY DeliveriesRestOfBatch, <1>0, <1>1, <1>2, <2>1 DEF DeliveriesInv
  <2> QED BY DeliveriesRestOfBatch, <1>1, <2>2 DEF DeliveriesInv, DeliveriesBatchOK
<1>6. DeliveriesAttemptsLeft'
  BY <1>2 DEF DeliveriesInv, DeliveriesAttemptsLeft
<1>7. DeliveriesHasBeenTaken'
  <2>1. \A e \in Deliveries!Deliveries : accepted[e] \in Nat /\ unsure[e] \in Nat
    BY DEF DeliveriesInv, DeliveriesTyped
  <2>2. \A e \in Deliveries!Deliveries \ {h} : DeliveriesMayHave(e) => DeliveriesMayHave(e)'
    BY <1>0, <1>2 DEF DeliveriesMayHave
  <2>3. how = "pending" => ~DeliveriesMayHave(h)
    BY <1>3 DEF DeliveriesMayHave, Deliveries!Ends
  <2>4. how # "pending" => DeliveriesMayHave(h)'
    BY <1>2 DEF DeliveriesMayHave
  <2>5. ASSUME NEW e \in Deliveries!Deliveries
        PROVE  /\ rows'[e].status = "none" => accepted[e] = 0
               /\ accepted[e] <= 1 + unsure[e]
               /\ ~DeliveriesMayHave(e)' => accepted[e] <= unsure[e]
    <3>1. CASE e = h
      BY <1>2, <2>3, <2>4, <3>1 DEF DeliveriesInv, DeliveriesHasBeenTaken, Deliveries!Ends
    <3>2. CASE e # h
      BY <1>2, <2>2, <3>2 DEF DeliveriesInv, DeliveriesHasBeenTaken
    <3> QED BY <3>1, <3>2
  <2> QED BY <2>5 DEF DeliveriesHasBeenTaken
<1> QED BY <1>4, <1>5, <1>6, <1>7 DEF DeliveriesInv

\* The row that the worker is at.
LEMMA DeliveriesHeadRow ==
  ASSUME Deliveries!Assumptions, DeliveriesInv, batch # <<>>
  PROVE  /\ rows[Head(batch)].status = "pending" /\ rows[Head(batch)].attempts \in Nat
         /\ rows[Head(batch)].attempts <= MaxRetries
<1>1. Head(batch) = batch[1] /\ batch[1] \in Deliveries!Deliveries
  BY DeliveriesRestOfBatch DEF DeliveriesInv
<1>2. 1 \in 1..Len(batch)
  BY LenProperties, EmptySeq DEF DeliveriesInv, DeliveriesBatchOK
<1> QED BY <1>1, <1>2
           DEF DeliveriesInv, DeliveriesBatchOK, DeliveriesTyped, Deliveries!Row,
               DeliveriesAttemptsLeft

LEMMA DeliveriesDiscardKeeps ==
  ASSUME Deliveries!Assumptions, DeliveriesInv, Deliveries!Discard
  PROVE  DeliveriesInv'
<1>1. rows[Head(batch)].attempts \in Nat /\ rows[Head(batch)].attempts <= MaxRetries + 1
  BY DeliveriesHeadRow DEF Deliveries!Discard, Deliveries!Assumptions
<1> QED BY <1>1, DeliveriesUpdateKeeps DEF Deliveries!Discard, Deliveries!Ends

LEMMA DeliveriesNoteKeeps ==
  ASSUME Deliveries!Assumptions, DeliveriesInv, Deliveries!Note
  PROVE  DeliveriesInv'
<1> DEFINE h == Head(batch)
           how == IF outcome = "ok" THEN "delivered"
                     ELSE IF rows[h].attempts >= MaxRetries THEN "failed" ELSE "pending"
<1>1. batch # <<>> /\ outcome \in {"ok", "error"}
  BY DEF Deliveries!Note, DeliveriesInv, DeliveriesBatchOK, DeliveriesTyped, Deliveries!Outcomes
<1>2. rows[h].attempts \in Nat /\ rows[h].attempts <= MaxRetries
  BY DeliveriesHeadRow, <1>1
<1>3. Deliveries!Update(h, how, rows[h].attempts + 1)
  BY DEF Deliveries!Note
<1>4. rows[h].attempts + 1 \in Nat /\ rows[h].attempts + 1 <= MaxRetries + 1
  BY <1>2 DEF Deliveries!Assumptions
<1>5. how \in {"pending"} \cup Deliveries!Ends
  BY DEF Deliveries!Ends
<1>6. how = "pending" => rows[h].attempts + 1 <= MaxRetries /\ outcome = "error"
  BY <1>1, <1>2 DEF Deliveries!Assumptions
<1>7. UNCHANGED <<wanted, settings, saves, aborts, accepted, unsure>>
  BY DEF Deliveries!Note
<1> HIDE DEF how
<1> QED BY <1>1, <1>3, <1>4, <1>5, <1>6, <1>7, DeliveriesUpdateKeeps

LEMMA DeliveriesSendKeeps ==
  ASSUME Deliveries!Assumptions, DeliveriesInv, Deliveries!Send
  PROVE  DeliveriesInv'
<1>1. PICK h \in Deliveries!Deliveries : h = Head(batch) /\ h = batch[1]
             /\ rows[h].status = "pending"
  BY DeliveriesRestOfBatch, DeliveriesHeadRow DEF DeliveriesInv, Deliveries!Send
<1>2. batch # <<>> /\ outcome = "unsent" /\ UNCHANGED <<rows, wanted, batch, settings, saves,
                                                        aborts>>
  BY DEF Deliveries!Send
<1>3. \A e \in Deliveries!Deliveries : accepted[e] \in Nat /\ unsure[e] \in Nat
  BY DEF DeliveriesInv, DeliveriesTyped
<1>4. ~DeliveriesMayHave(h) /\ accepted[h] <= unsure[h]
  BY <1>1, <1>2 DEF DeliveriesMayHave, Deliveries!Ends, DeliveriesInv, DeliveriesHasBeenTaken
<1>5. DeliveriesBatchOK' /\ DeliveriesAttemptsLeft'
  BY <1>2 DEF DeliveriesInv, DeliveriesBatchOK, DeliveriesAttemptsLeft
<1>6. \A e \in Deliveries!Deliveries : DeliveriesMayHave(e) => DeliveriesMayHave(e)'
  BY <1>2 DEF DeliveriesMayHave
<1>7. CASE outcome' = "ok" /\ accepted' = [accepted EXCEPT ![h] = @ + 1] /\ unsure' = unsure
  <2>1. DeliveriesTyped'
    BY <1>1, <1>2, <1>7 DEF DeliveriesInv, DeliveriesTyped, Deliveries!Outcomes
  <2>2. /\ accepted'[h] = accepted[h] + 1
        /\ \A e \in Deliveries!Deliveries \ {h} : accepted'[e] = accepted[e]
    BY <1>1, <1>7 DEF DeliveriesInv, DeliveriesTyped
  <2>3. DeliveriesMayHave(h)'
    BY <1>1, <1>2, <1>7 DEF DeliveriesMayHave
  <2>4. DeliveriesHasBeenTaken'
    BY <1>1, <1>2, <1>3, <1>4, <1>6, <1>7, <2>2, <2>3 DEF DeliveriesInv, DeliveriesHasBeenTaken
  <2> QED BY <1>5, <2>1, <2>4 DEF DeliveriesInv
<1>8. CASE /\ outcome' = "error" /\ accepted' = [accepted EXCEPT ![h] = @ + 1]
           /\ unsure' = [unsure EXCEPT ![h] = @ + 1]
  <2>1. DeliveriesTyped'
    BY <1>1, <1>2, <1>8 DEF DeliveriesInv, DeliveriesTyped, Deliveries!Outcomes
  <2>2. /\ accepted'[h] = accepted[h] + 1 /\ unsure'[h] = unsure[h] + 1
        /\ \A e \in Deliveries!Deliveries \ {h} : accepted'[e] = accepted[e]
             /\ unsure'[e] = unsure[e]
    BY <1>1, <1>8 DEF DeliveriesInv, DeliveriesTyped
  <2>3. DeliveriesHasBeenTaken'
    BY <1>1, <1>2, <1>3, <1>4, <1>6, <2>2 DEF DeliveriesInv, DeliveriesHasBeenTaken
  <2> QED BY <1>5, <2>1, <2>3 DEF DeliveriesInv
<1>9. CASE outcome' = "error" /\ accepted' = accepted /\ unsure' = unsure
  <2>1. DeliveriesTyped'
    BY <1>2, <1>9 DEF DeliveriesInv, DeliveriesTyped, Deliveries!Outcomes
  <2>2. DeliveriesHasBeenTaken'
    BY <1>2, <1>6, <1>9 DEF DeliveriesInv, DeliveriesHasBeenTaken
  <2> QED BY <1>5, <2>1, <2>2 DEF DeliveriesInv
<1> QED BY <1>1, <1>7, <1>8, <1>9 DEF Deliveries!Send

LEMMA DeliveriesAbortKeeps ==
  ASSUME Deliveries!Assumptions, DeliveriesInv, Deliveries!Abort
  PROVE  DeliveriesInv'
<1>1. PICK h \in Deliveries!Deliveries : h = Head(batch) /\ h = batch[1]
             /\ rows[h].status = "pending"
  BY DeliveriesRestOfBatch, DeliveriesHeadRow DEF DeliveriesInv, Deliveries!Abort
<1>2. /\ batch' = <<>> /\ outcome' = "unsent" /\ aborts' \in 0..MaxAborts
      /\ unsure' = IF outcome = "ok" THEN [unsure EXCEPT ![h] = @ + 1] ELSE unsure
      /\ UNCHANGED <<rows, wanted, settings, saves, accepted>>
  BY <1>1 DEF Deliveries!Abort, DeliveriesInv, DeliveriesTyped, Deliveries!Assumptions
<1>3. DeliveriesTyped'
  BY <1>1, <1>2 DEF DeliveriesInv, DeliveriesTyped, Deliveries!Outcomes
<1>4. DeliveriesBatchOK' /\ DeliveriesAttemptsLeft'
  BY <1>2 DEF DeliveriesInv, DeliveriesBatchOK, DeliveriesAttemptsLeft, Deliveries!Assumptions
<1>5. ASSUME NEW e \in Deliveries!Deliveries
      PROVE  /\ rows[e].status = "none" => accepted[e] = 0
             /\ accepted[e] <= 1 + unsure'[e]
             /\ ~DeliveriesMayHave(e)' => accepted[e] <= unsure'[e]
  <2>1. accepted[e] \in Nat /\ unsure[e] \in Nat
    BY DEF DeliveriesInv, DeliveriesTyped
  <2>2. unsure'[e] = IF outcome = "ok" /\ e = h THEN unsure[e] + 1 ELSE unsure[e]
    BY <1>1, <1>2 DEF DeliveriesInv, DeliveriesTyped
  <2>3. DeliveriesMayHave(e) => DeliveriesMayHave(e)' \/ (outcome = "ok" /\ e = h)
    BY <1>1, <1>2 DEF DeliveriesMayHave
  <2> QED BY <2>1, <2>2, <2>3 DEF DeliveriesInv, DeliveriesHasBeenTaken
<1>6. DeliveriesHasBeenTaken'
  BY <1>2, <1>5 DEF DeliveriesHasBeenTaken
<1> QED BY <1>3, <1>4, <1>6 DEF DeliveriesInv

LEMMA DeliveriesNextKeeps ==
  ASSUME Deliveries!Assumptions, DeliveriesInv, [Deliveries!Next]_(Deliveries!vars)
  PROVE  DeliveriesInv'
<1>1. ASSUME NEW d \in Deliveries!Deliveries, Deliveries!Raise(d) PROVE DeliveriesInv'
  BY <1>1, DeliveriesRaiseKeeps
<1>2. ASSUME NEW d \in Deliveries!Deliveries, Deliveries!Elapse(d) PROVE DeliveriesInv'
  BY <1>2, DeliveriesElapseKeeps
<1>3. CASE Deliveries!ChangeSettings
  BY <1>3, DeliveriesChangeKeeps
<1>4. CASE Deliveries!ReadBatch
  BY <1>4, DeliveriesReadKeeps
<1>5. CASE Deliveries!Discard
  BY <1>5, DeliveriesDiscardKeeps
<1>6. CASE Deliveries!Send
  BY <1>6, DeliveriesSendKeeps
<1>7. CASE Deliveries!Note
  BY <1>7, DeliveriesNoteKeeps
<1>8. CASE Deliveries!Abort
  BY <1>8, DeliveriesAbortKeeps
<1>9. CASE UNCHANGED Deliveries!vars
  BY <1>9
     DEF Deliveries!vars, DeliveriesInv, DeliveriesTyped, DeliveriesBatchOK,
         DeliveriesAttemptsLeft, DeliveriesHasBeenTaken, DeliveriesMayHave
<1> QED BY <1>1, <1>2, <1>3, <1>4, <1>5, <1>6, <1>7, <1>8, <1>9
           DEF Deliveries!Next, Deliveries!Worker

-----------------------------------------------------------------------------
(* The samples of an agent: ReportPipeline *)

LEMMA PipelineFilters == \A q, S : Pipeline!Without(q, S) = Without(q, S)
BY DEF Pipeline!Without, Without

LEMMA PipelineToSetIs ==
  ASSUME NEW A, NEW q \in Seq(A)
  PROVE  Pipeline!ToSet(q) \subseteq A
           /\ \A a : a \in Pipeline!ToSet(q) <=> \E i \in 1..Len(q) : q[i] = a
<1>1. DOMAIN q = 1..Len(q)
  BY LenProperties
<1>2. \A i \in 1..Len(q) : q[i] \in A
  BY ElementOfSeq
<1> QED BY <1>1, <1>2 DEF Pipeline!ToSet

LEMMA PipelineWithoutSet ==
  ASSUME NEW A, NEW q \in Seq(A), NEW S
  PROVE  /\ Pipeline!Without(q, S) \in Seq(A) /\ Len(Pipeline!Without(q, S)) \in 0..Len(q)
         /\ Pipeline!ToSet(Pipeline!Without(q, S)) = Pipeline!ToSet(q) \ S
<1> DEFINE p == Pipeline!Without(q, S)
<1>1. LeftOf(A, q, S, Len(q), p)
  BY WithoutIs, PipelineFilters
<1>2. p \in Seq(A) /\ Len(p) \in 0..Len(q)
  BY <1>1 DEF LeftOf
<1> HIDE DEF p
<1>3. ASSUME NEW a PROVE a \in Pipeline!ToSet(p) <=> a \in Pipeline!ToSet(q) \ S
  <2>1. a \in Pipeline!ToSet(p) <=> \E j \in 1..Len(p) : p[j] = a
    BY <1>2, PipelineToSetIs
  <2>2. a \in Pipeline!ToSet(q) <=> \E i \in 1..Len(q) : q[i] = a
    BY PipelineToSetIs
  <2>3. ASSUME a \in Pipeline!ToSet(p) PROVE a \in Pipeline!ToSet(q) \ S
    <3>1. PICK j \in 1..Len(p) : p[j] = a
      BY <2>1, <2>3
    <3>2. \E i \in 1..Len(q) : p[j] = q[i] /\ q[i] \notin S
      BY <1>1, <3>1 DEF LeftOf
    <3> QED BY <2>2, <3>1, <3>2
  <2>4. a \in Pipeline!ToSet(q) \ S => a \in Pipeline!ToSet(p)
    BY <1>1, <2>1, <2>2 DEF LeftOf
  <2> QED BY <2>3, <2>4
<1> QED BY <1>2, <1>3 DEF p

LEMMA PipelineNewestSet ==
  ASSUME Pipeline!Assumptions, NEW A, NEW q \in Seq(A)
  PROVE  /\ Pipeline!Newest(q) \in Seq(A) /\ Len(Pipeline!Newest(q)) <= Buffered
         /\ Pipeline!ToSet(Pipeline!Newest(q)) \subseteq Pipeline!ToSet(q)
         /\ Len(q) <= Buffered => Pipeline!Newest(q) = q
<1>1. Len(q) \in Nat /\ Buffered \in Nat \ {0}
  BY LenProperties DEF Pipeline!Assumptions
<1>2. CASE Len(q) <= Buffered
  BY <1>1, <1>2 DEF Pipeline!Newest
<1>3. CASE ~(Len(q) <= Buffered)
  <2> DEFINE m == Len(q) - Buffered + 1
             p == SubSeq(q, m, Len(q))
  <2>1. Pipeline!Newest(q) = p
    BY <1>1, <1>3 DEF Pipeline!Newest
  <2>2. m \in Int /\ Len(q) \in Int /\ m <= Len(q) /\ Len(q) - m + 1 = Buffered
    BY <1>1, <1>3
  <2>3. \A i \in m..Len(q) : i \in 1..Len(q) /\ q[i] \in A
    <3>1. \A i \in m..Len(q) : i \in 1..Len(q)
      BY <1>1, <1>3
    <3> QED BY <3>1, ElementOfSeq
  <2> HIDE DEF m
  <2>4. /\ p \in Seq(A) /\ Len(p) = Buffered
        /\ \A i \in 1..(Len(q) - m + 1) : p[i] = q[m + i - 1]
    BY <2>2, <2>3, SubSeqProperties
  <2> HIDE DEF p
  <2>5. ASSUME NEW a \in Pipeline!ToSet(p) PROVE a \in Pipeline!ToSet(q)
    <3>1. PICK i \in 1..Len(p) : p[i] = a
      BY <2>4, PipelineToSetIs
    <3>2. m + i - 1 \in m..Len(q) /\ a = q[m + i - 1]
      BY <1>1, <2>2, <2>4, <3>1
    <3>3. m + i - 1 \in 1..Len(q)
      BY <2>3, <3>2
    <3> QED BY <3>2, <3>3, PipelineToSetIs
  <2> QED BY <1>1, <1>3, <2>1, <2>4, <2>5
<1> QED BY <1>2, <1>3

LEMMA PipelineWider ==
  ASSUME NEW A, NEW B, A \subseteq B, NEW q \in Seq(A)
  PROVE  q \in Seq(B)
OBVIOUS

\* The counter as it stands, as a sample of it.
PipelineNow == [at |-> ticks, counter |-> counter, identity |-> identity, resets |-> resets,
                moved |-> moved]

\* Of two samples the second is the later one.
PipelineBefore(x, y) ==
  /\ x.at <= y.at /\ x.moved <= y.moved /\ x.resets <= y.resets
  /\ x.resets = y.resets =>
       x.identity = y.identity /\ y.counter - x.counter = y.moved - x.moved
  /\ x.resets < y.resets => y.counter <= y.moved - x.moved

PipelineInOrder ==
  /\ \A i \in Pipeline!Taken : PipelineBefore(samples[i], PipelineNow)
  /\ \A i, j \in Pipeline!Taken : i < j => PipelineBefore(samples[i], samples[j])

PipelineSecondOf(n) == samples[n].second

PipelineSeconds ==
  \A n \in Pipeline!Taken :
    /\ PipelineSecondOf(n) \in 1..n
    /\ PipelineSecondOf(PipelineSecondOf(n)) = PipelineSecondOf(n)
    /\ samples[PipelineSecondOf(n)].at = samples[n].at

\* A row is received after its sample was taken, and is counted.
PipelineRowsCounted ==
  \A n \in DOMAIN stored : stored[n] >= samples[n].at /\ recorded[PipelineSecondOf(n)] = 1

\* A second that is counted is known by a row, or too old to be sent again.
PipelineKnownOrOld ==
  \A s \in Pipeline!Numbers :
    /\ recorded[s] \in {0, 1}
    /\ recorded[s] = 1 =>
         /\ s \in Pipeline!Taken /\ PipelineSecondOf(s) = s
         /\ (\E n \in DOMAIN stored : PipelineSecondOf(n) = s) \/ ticks - samples[s].at > Window

PipelineTotals ==
  /\ latest = 0 => first = 0 /\ traffic = 0
  /\ latest # 0 => first \in 1..latest
  /\ Pipeline!TrafficCounted

PipelineCalling ==
  /\ sending # {} => up
  /\ sending = {} => answer = "none"
  /\ answer = "running" => \A n \in sending \ {0} : recorded[PipelineSecondOf(n)] = 1

\* A sample is in q, or nothing is missed if it is not.
PipelineHasOrGone(q, n) ==
  n \in Pipeline!ToSet(q) \/ recorded[PipelineSecondOf(n)] > 0 \/ Pipeline!Age(n) > Keep
    \/ n \in excused

PipelineHeld ==
  \A n \in Pipeline!Taken :
    PipelineHasOrGone(buffer, n) /\ (up => PipelineHasOrGone(buffered, n))

\* Each new identity comes with a new start of the counter.
PipelineInv ==
  /\ identity <= resets
  /\ Pipeline!TypeOK /\ PipelineInOrder /\ PipelineSeconds /\ PipelineRowsCounted
  /\ PipelineKnownOrOld /\ PipelineTotals /\ PipelineCalling /\ PipelineHeld

LEMMA PipelineInitHolds == ASSUME Pipeline!Assumptions, Pipeline!Init PROVE PipelineInv
<1>1. Len(samples) = 0 /\ Pipeline!Taken = {} /\ DOMAIN stored = {}
  BY DEF Pipeline!Init, Pipeline!Taken
<1>2. Pipeline!TypeOK
  <2>1. /\ samples \in Seq(Pipeline!Sample) /\ buffered \in Seq(Pipeline!Taken)
        /\ buffer \in Seq(Pipeline!Taken)
    BY DEF Pipeline!Init
  <2>2. Len(buffered) <= Buffered /\ Len(buffer) <= Buffered /\ Len(samples) <= MaxSamples
    BY DEF Pipeline!Init, Pipeline!Assumptions
  <2>3. recorded \in [Pipeline!Numbers -> Nat]
    BY DEF Pipeline!Init
  <2>4. /\ sending \in {{}, {0}} /\ answer = "none" /\ late = {} /\ excused = {}
        /\ up = FALSE /\ paused = FALSE /\ setting = FALSE
    BY DEF Pipeline!Init
  <2>5. /\ ticks \in 0..MaxAge /\ identity \in 0..MaxResets /\ resets \in 0..MaxResets
        /\ starts \in 0..MaxStarts /\ toggles \in 0..MaxToggles
    BY DEF Pipeline!Init, Pipeline!Assumptions
  <2> QED BY <1>1, <2>1, <2>2, <2>3, <2>4, <2>5 DEF Pipeline!Init, Pipeline!TypeOK
<1>3. PipelineKnownOrOld
  BY DEF Pipeline!Init, PipelineKnownOrOld
<1>4. PipelineTotals
  BY DEF Pipeline!Init, PipelineTotals, Pipeline!TrafficCounted
<1> QED BY <1>1, <1>2, <1>3, <1>4
           DEF Pipeline!Init, PipelineInv, PipelineInOrder, PipelineSeconds,
               PipelineRowsCounted, PipelineCalling, PipelineHeld

LEMMA PipelineSampleTypes ==
  ASSUME Pipeline!Assumptions, PipelineInv, NEW n \in Pipeline!Taken
  PROVE  /\ samples[n].at \in 0..MaxAge /\ samples[n].counter \in Nat
         /\ samples[n].identity \in 0..MaxResets /\ samples[n].resets \in 0..MaxResets
         /\ samples[n].moved \in Nat /\ PipelineSecondOf(n) \in Pipeline!Numbers
         /\ n \in Pipeline!Numbers
<1>1. samples \in Seq(Pipeline!Sample) /\ Len(samples) <= MaxSamples
  BY DEF PipelineInv, Pipeline!TypeOK
<1>2. samples[n] \in Pipeline!Sample
  BY <1>1, ElementOfSeq DEF Pipeline!Taken
<1>3. n \in Pipeline!Numbers
  <2>1. Len(samples) \in Nat /\ MaxSamples \in Nat
    BY <1>1, LenProperties DEF Pipeline!Assumptions
  <2> QED BY <1>1, <2>1 DEF Pipeline!Taken, Pipeline!Numbers
<1> QED BY <1>2, <1>3 DEF Pipeline!Sample, PipelineSecondOf

LEMMA PipelineCollectIs ==
  ASSUME Pipeline!Assumptions, PipelineInv, NEW bytes \in 0..MaxBytes, NEW same \in BOOLEAN,
         Pipeline!Collect(bytes, same)
  PROVE  LET n == Len(samples) + 1 IN
         /\ n \in Pipeline!Numbers /\ Len(samples') = n /\ samples' \in Seq(Pipeline!Sample)
         /\ Pipeline!Taken' = 1..n /\ Pipeline!Taken = 1..(n - 1) /\ n \in Nat
         /\ \A i \in Pipeline!Taken : i \in Pipeline!Taken' /\ i < n /\ samples'[i] = samples[i]
         /\ \A i \in Pipeline!Taken' : i = n \/ i \in Pipeline!Taken
         /\ samples'[n] = [at |-> ticks,
                           second |-> IF same THEN samples[n - 1].second ELSE n,
                           counter |-> counter', identity |-> identity, resets |-> resets,
                           moved |-> moved']
         /\ counter' = counter + bytes /\ moved' = moved + bytes
         /\ same => n > 1 /\ samples[n - 1].at = ticks
<1> DEFINE n == Len(samples) + 1
           e == [at |-> ticks, second |-> IF same THEN samples[n - 1].second ELSE n,
                 counter |-> counter', identity |-> identity, resets |-> resets,
                 moved |-> moved']
<1>1. samples \in Seq(Pipeline!Sample) /\ Len(samples) \in Nat
  BY LenProperties DEF PipelineInv, Pipeline!TypeOK
<1>2. n \in Pipeline!Numbers
  BY <1>1 DEF Pipeline!Collect, Pipeline!Numbers
<1>3. counter' \in Nat /\ moved' \in Nat
  BY DEF Pipeline!Collect, PipelineInv, Pipeline!TypeOK, Pipeline!Assumptions
<1>4. e.second \in Pipeline!Numbers
  <2>1. CASE same
    <3>1. n - 1 \in Pipeline!Taken
      BY <1>1, <2>1 DEF Pipeline!Collect, Pipeline!Taken
    <3> QED BY <2>1, <3>1, PipelineSampleTypes DEF PipelineSecondOf
  <2>2. CASE ~same
    BY <1>2, <2>2
  <2> QED BY <2>1, <2>2
<1>5. e \in Pipeline!Sample
  BY <1>3, <1>4 DEF PipelineInv, Pipeline!TypeOK, Pipeline!Sample
<1>6. samples' = Append(samples, e)
  BY DEF Pipeline!Collect
<1> HIDE DEF e
<1>7. /\ samples' \in Seq(Pipeline!Sample) /\ Len(samples') = n /\ samples'[n] = e
      /\ \A i \in 1..Len(samples) : samples'[i] = samples[i]
  BY <1>1, <1>5, <1>6
<1>8. Pipeline!Taken = 1..(n - 1) /\ Pipeline!Taken' = 1..n
  BY <1>1, <1>7 DEF Pipeline!Taken
<1>9. counter' = counter + bytes /\ moved' = moved + bytes
      /\ (same => n > 1 /\ samples[n - 1].at = ticks)
  BY DEF Pipeline!Collect
<1>10. (\A i \in Pipeline!Taken : i \in Pipeline!Taken' /\ i < n /\ samples'[i] = samples[i])
       /\ (\A i \in Pipeline!Taken' : i = n \/ i \in Pipeline!Taken)
  BY <1>1, <1>7, <1>8
<1> QED BY <1>1, <1>2, <1>7, <1>8, <1>9, <1>10 DEF e

\* Everything but the samples and the queue stays as it is.
LEMMA PipelineCollectQueue ==
  ASSUME Pipeline!Assumptions, PipelineInv, NEW bytes \in 0..MaxBytes, NEW same \in BOOLEAN,
         Pipeline!Collect(bytes, same)
  PROVE  /\ buffered' \in Seq(Pipeline!Taken') /\ Len(buffered') <= Buffered
         /\ buffer' = buffered'
         /\ Pipeline!ToSet(buffered') \subseteq Pipeline!Taken'
         /\ \A i \in Pipeline!ToSet(buffered) : i \in Pipeline!ToSet(buffered')
              \/ i \in excused'
         /\ LET n == Len(samples) + 1 IN n \in Pipeline!ToSet(buffered') \/ n \in excused'
         /\ excused \subseteq excused' /\ excused' \subseteq Pipeline!Taken'
<1> DEFINE n == Len(samples) + 1
           longer == Append(buffered, n)
<1>1. /\ n \in Pipeline!Taken' /\ Pipeline!Taken \subseteq Pipeline!Taken'
      /\ buffered \in Seq(Pipeline!Taken)
  <2>1. /\ n \in Nat /\ n \in Pipeline!Numbers /\ Pipeline!Taken' = 1..n
        /\ Pipeline!Taken = 1..(n - 1)
    BY PipelineCollectIs
  <2>2. buffered \in Seq(Pipeline!Taken)
    BY DEF PipelineInv, Pipeline!TypeOK
  <2> HIDE DEF n
  <2> QED BY <2>1, <2>2 DEF Pipeline!Numbers
<1>2. buffered \in Seq(Pipeline!Taken')
  BY <1>1, PipelineWider
<1>3. longer \in Seq(Pipeline!Taken') /\ \A i \in 1..Len(buffered) : longer[i] = buffered[i]
  BY <1>1, <1>2
<1>4. Len(longer) = Len(buffered) + 1 /\ longer[Len(buffered) + 1] = n /\ Len(buffered) \in Nat
  BY <1>1, <1>2
<1>5. /\ buffered' = Pipeline!Newest(longer) /\ buffer' = buffered'
      /\ excused' = excused \cup (Pipeline!ToSet(longer) \ Pipeline!ToSet(buffered'))
  BY DEF Pipeline!Collect
<1>6. excused \subseteq Pipeline!Taken
  BY DEF PipelineInv, Pipeline!TypeOK
<1> HIDE DEF n
<1>7. n \in Pipeline!ToSet(longer)
  <2>1. Len(longer) \in 1..Len(longer) /\ longer[Len(longer)] = n
    BY <1>4
  <2> HIDE DEF longer
  <2> QED BY <1>3, <2>1, PipelineToSetIs
<1>8. Pipeline!ToSet(buffered) \subseteq Pipeline!ToSet(longer)
  <2> SUFFICES ASSUME NEW a \in Pipeline!ToSet(buffered) PROVE a \in Pipeline!ToSet(longer)
    OBVIOUS
  <2>1. PICK i \in 1..Len(buffered) : buffered[i] = a
    BY <1>2, PipelineToSetIs
  <2>2. i \in 1..Len(longer) /\ longer[i] = a
    BY <1>3, <1>4, <2>1
  <2> HIDE DEF longer
  <2> QED BY <1>3, <2>2, PipelineToSetIs
<1> HIDE DEF longer
<1>9. /\ buffered' \in Seq(Pipeline!Taken') /\ Len(buffered') <= Buffered
      /\ Pipeline!ToSet(buffered') \subseteq Pipeline!ToSet(longer)
  BY <1>3, <1>5, PipelineNewestSet
<1>10. Pipeline!ToSet(longer) \subseteq Pipeline!Taken'
  BY <1>3, PipelineToSetIs
<1> QED BY <1>1, <1>5, <1>6, <1>7, <1>8, <1>9, <1>10 DEF n

PipelineUnread == UNCHANGED <<stored, latest, current, traffic, first, recorded>>

\* A sample that is neither refused nor known gets a row and is counted.
PipelineCounts(n) ==
  /\ ~setting /\ \A m \in DOMAIN stored : PipelineSecondOf(m) # PipelineSecondOf(n)
  /\ DOMAIN stored' = DOMAIN stored \cup {n} /\ stored'[n] = ticks
  /\ \A m \in DOMAIN stored : stored'[m] = stored[m]
  /\ recorded' = [recorded EXCEPT ![PipelineSecondOf(n)] = recorded[PipelineSecondOf(n)] + 1]
  /\ traffic' = traffic + Pipeline!Gain(n)
  /\ latest' = (IF Pipeline!Ordered(n) THEN n ELSE latest)
  /\ current' \in {n, current}
  /\ first' = (IF first = 0 THEN n ELSE first)

LEMMA PipelineIngestIs ==
  ASSUME PipelineInv, NEW n \in Pipeline!Taken, Pipeline!Ingest(n)
  PROVE  Pipeline!Age(n) <= Window /\ ((PipelineUnread /\ (setting \/ Pipeline!Known(n)))
                                       \/ PipelineCounts(n))
<1>1. Pipeline!Age(n) <= Window
  BY DEF Pipeline!Ingest, Pipeline!Validate
<1>2. CASE setting \/ Pipeline!Known(n)
  BY <1>1, <1>2 DEF Pipeline!Ingest, PipelineUnread
<1>3. CASE ~(setting \/ Pipeline!Known(n))
  <2>1. \A m \in DOMAIN stored : PipelineSecondOf(m) # PipelineSecondOf(n) /\ m # n
    BY <1>3 DEF Pipeline!Known, PipelineSecondOf
  <2>2. stored' = [m \in DOMAIN stored \cup {n} |-> IF m = n THEN ticks ELSE stored[m]]
    BY <1>3 DEF Pipeline!Ingest
  <2>3. /\ recorded' = [recorded EXCEPT ![PipelineSecondOf(n)] = recorded[PipelineSecondOf(n)]
                        + 1]
        /\ traffic' = traffic + Pipeline!Gain(n)
        /\ latest' = (IF Pipeline!Ordered(n) THEN n ELSE latest)
        /\ current' \in {n, current}
        /\ first' = (IF first = 0 THEN n ELSE first)
    BY <1>3 DEF Pipeline!Ingest, PipelineSecondOf
  <2> QED BY <1>1, <1>3, <2>1, <2>2, <2>3 DEF PipelineCounts
<1> QED BY <1>2, <1>3

\* A step of the server: a call is carried out.
LEMMA PipelineReportIs ==
  ASSUME PipelineInv, Pipeline!Report \/ \E n \in Pipeline!Numbers : Pipeline!ReportLate(n)
  PROVE  /\ UNCHANGED <<ticks, Pipeline!hostVars, Pipeline!agentVars, sending, setting, toggles,
                        excused>>
         /\ late' \subseteq late
         /\ answer' \in {answer, "running", "paused"}
         /\ answer' # answer => sending # {}
         /\ PipelineUnread \/ \E n \in Pipeline!Taken : Pipeline!Age(n) <= Window
              /\ PipelineCounts(n)
<1>1. CASE Pipeline!Report
  <2>1. ASSUME NEW n \in sending, Pipeline!Ingest(n), sending # {0} PROVE n \in Pipeline!Taken
    BY <2>1 DEF PipelineInv, Pipeline!TypeOK
  <2>2. PipelineUnread \/ \E n \in Pipeline!Taken : Pipeline!Age(n) <= Window
          /\ PipelineCounts(n)
    BY <1>1, <2>1, PipelineIngestIs DEF Pipeline!Report, PipelineUnread
  <2> QED BY <1>1, <2>2 DEF Pipeline!Report
<1>2. ASSUME NEW n \in Pipeline!Numbers, Pipeline!ReportLate(n)
      PROVE  n \in Pipeline!Taken /\ Pipeline!Ingest(n)
  BY <1>2 DEF Pipeline!ReportLate, PipelineInv, Pipeline!TypeOK
<1>3. CASE \E n \in Pipeline!Numbers : Pipeline!ReportLate(n)
  BY <1>2, <1>3, PipelineIngestIs DEF Pipeline!ReportLate
<1> QED BY <1>1, <1>3

LEMMA PipelineGainIs ==
  ASSUME Pipeline!Assumptions, PipelineInv, NEW n \in Pipeline!Taken
  PROVE  /\ Pipeline!Gain(n) \in Nat
         /\ n <= latest \/ latest = 0 => Pipeline!Gain(n) = 0
         /\ n > latest /\ latest # 0 =>
              /\ Pipeline!Gain(n) <= samples[n].moved - samples[latest].moved
              /\ samples[n].resets = samples[latest].resets =>
                   Pipeline!Gain(n) = samples[n].moved - samples[latest].moved
<1>1. n \in Nat /\ latest \in Nat /\ latest \in Pipeline!Taken \cup {0} /\ n \in Pipeline!Taken
  <2>1. \A m \in Pipeline!Taken : m \in Nat
    BY PipelineSampleTypes DEF Pipeline!Numbers
  <2>2. latest \in Pipeline!Taken \cup {0}
    BY DEF PipelineInv, Pipeline!TypeOK
  <2> QED BY <2>1, <2>2
<1>2. CASE n <= latest \/ latest = 0
  BY <1>1, <1>2 DEF Pipeline!Gain
<1>3. CASE n > latest /\ latest # 0
  <2> DEFINE x == samples[latest]
             y == samples[n]
  <2>1. PipelineBefore(x, y)
    BY <1>1, <1>3 DEF PipelineInv, PipelineInOrder
  <2>2. /\ x.counter \in Nat /\ y.counter \in Nat /\ x.moved \in Nat /\ y.moved \in Nat
        /\ x.resets \in Nat /\ y.resets \in Nat
    BY <1>1, <1>3, PipelineSampleTypes
  <2>3. Pipeline!Gain(n) = IF x.identity = y.identity /\ y.counter >= x.counter
                  THEN y.counter - x.counter ELSE 0
    BY <1>3 DEF Pipeline!Gain
  <2> HIDE DEF x, y
  <2>4. /\ Pipeline!Gain(n) \in Nat /\ Pipeline!Gain(n) <= y.moved - x.moved
        /\ y.resets = x.resets => Pipeline!Gain(n) = y.moved - x.moved
    BY <2>1, <2>2, <2>3 DEF PipelineBefore
  <2> QED BY <1>1, <1>3, <2>4 DEF x, y
<1> QED BY <1>1, <1>2, <1>3

LEMMA PipelineCollectTyped ==
  ASSUME Pipeline!Assumptions, PipelineInv, NEW bytes \in 0..MaxBytes, NEW same \in BOOLEAN,
         Pipeline!Collect(bytes, same)
  PROVE  Pipeline!TypeOK'
<1> DEFINE n == Len(samples) + 1
<1>1. /\ n \in Pipeline!Numbers /\ Len(samples') = n /\ samples' \in Seq(Pipeline!Sample)
      /\ \A i \in Pipeline!Taken : i \in Pipeline!Taken'
  BY PipelineCollectIs
<1>2. Len(samples') <= MaxSamples /\ Pipeline!Taken \subseteq Pipeline!Taken'
  BY <1>1 DEF Pipeline!Numbers
<1>3. /\ buffered' \in Seq(Pipeline!Taken') /\ Len(buffered') <= Buffered /\ buffer' = buffered'
      /\ excused' \subseteq Pipeline!Taken'
  BY PipelineCollectQueue
<1>4. counter' \in Nat /\ moved' \in Nat
  BY DEF Pipeline!Collect, PipelineInv, Pipeline!TypeOK, Pipeline!Assumptions
<1>5. sending' \in {{}, {0}} \cup {{m} : m \in Pipeline!Taken'}
  BY <1>2 DEF Pipeline!Collect, Pipeline!callVars, PipelineInv, Pipeline!TypeOK
<1>6. late' \subseteq Pipeline!Taken' /\ DOMAIN stored' \subseteq Pipeline!Taken'
  BY <1>2
     DEF Pipeline!Collect, Pipeline!callVars, Pipeline!serverVars, PipelineInv, Pipeline!TypeOK
<1>7. /\ latest' \in Pipeline!Taken' \cup {0} /\ current' \in Pipeline!Taken' \cup {0}
      /\ first' \in Pipeline!Taken' \cup {0}
  BY <1>2 DEF Pipeline!Collect, Pipeline!serverVars, PipelineInv, Pipeline!TypeOK
<1> QED BY <1>1, <1>2, <1>3, <1>4, <1>5, <1>6, <1>7
           DEF Pipeline!Collect, Pipeline!callVars, Pipeline!serverVars, PipelineInv,
               Pipeline!TypeOK

LEMMA PipelineCountsTyped ==
  ASSUME Pipeline!Assumptions, PipelineInv, NEW n \in Pipeline!Taken, PipelineCounts(n),
         UNCHANGED <<ticks, samples>>
  PROVE  /\ DOMAIN stored' \subseteq Pipeline!Taken
         /\ \A m \in DOMAIN stored' : stored'[m] \in 0..MaxAge
         /\ latest' \in Pipeline!Taken \cup {0} /\ current' \in Pipeline!Taken \cup {0}
         /\ first' \in Pipeline!Taken \cup {0}
         /\ traffic' \in Nat /\ recorded' \in [Pipeline!Numbers -> Nat]
<1>1. Pipeline!Gain(n) \in Nat /\ PipelineSecondOf(n) \in Pipeline!Numbers
  BY PipelineGainIs, PipelineSampleTypes
<1>2. recorded' \in [Pipeline!Numbers -> Nat] /\ traffic' \in Nat
  BY <1>1 DEF PipelineCounts, PipelineInv, Pipeline!TypeOK
<1>3. DOMAIN stored' \subseteq Pipeline!Taken
        /\ \A m \in DOMAIN stored' : stored'[m] \in 0..MaxAge
  BY DEF PipelineCounts, PipelineInv, Pipeline!TypeOK
<1> QED BY <1>2, <1>3 DEF PipelineCounts, PipelineInv, Pipeline!TypeOK

LEMMA PipelineReportTyped ==
  ASSUME Pipeline!Assumptions, PipelineInv, Pipeline!Report
           \/ \E n \in Pipeline!Numbers : Pipeline!ReportLate(n)
  PROVE  Pipeline!TypeOK'
<1>1. /\ UNCHANGED <<ticks, Pipeline!hostVars, Pipeline!agentVars, sending, setting, toggles,
                     excused>>
      /\ late' \subseteq late /\ answer' \in {answer, "running", "paused"}
      /\ PipelineUnread \/ \E n \in Pipeline!Taken : Pipeline!Age(n) <= Window
           /\ PipelineCounts(n)
  BY PipelineReportIs
<1>2. UNCHANGED samples /\ Pipeline!Taken' = Pipeline!Taken
  BY <1>1 DEF Pipeline!agentVars, Pipeline!Taken
<1>3. /\ DOMAIN stored' \subseteq Pipeline!Taken
      /\ \A m \in DOMAIN stored' : stored'[m] \in 0..MaxAge
      /\ latest' \in Pipeline!Taken \cup {0} /\ current' \in Pipeline!Taken \cup {0}
      /\ first' \in Pipeline!Taken \cup {0}
      /\ traffic' \in Nat /\ recorded' \in [Pipeline!Numbers -> Nat]
  <2>1. CASE PipelineUnread
    BY <2>1 DEF PipelineUnread, PipelineInv, Pipeline!TypeOK
  <2>2. CASE \E n \in Pipeline!Taken : PipelineCounts(n)
    BY <1>1, <1>2, <2>2, PipelineCountsTyped
  <2> QED BY <1>1, <2>1, <2>2
<1> QED BY <1>1, <1>2, <1>3
           DEF Pipeline!hostVars, Pipeline!agentVars, PipelineInv, Pipeline!TypeOK

LEMMA PipelineQueueTyped ==
  ASSUME Pipeline!Assumptions, PipelineInv, NEW S, NEW q \in {buffered, buffer, <<>>}
  PROVE  /\ Pipeline!Without(q, S) \in Seq(Pipeline!Taken)
         /\ Len(Pipeline!Without(q, S)) <= Buffered
         /\ Pipeline!ToSet(Pipeline!Without(q, S)) = Pipeline!ToSet(q) \ S
         /\ Pipeline!ToSet(q) \subseteq Pipeline!Taken
<1>1. q \in Seq(Pipeline!Taken) /\ Len(q) <= Buffered /\ Buffered \in Nat /\ Len(q) \in Nat
  <2>1. Buffered \in Nat
    BY DEF Pipeline!Assumptions
  <2>2. <<>> \in Seq(Pipeline!Taken) /\ Len(<<>>) <= Buffered
    BY <2>1
  <2>3. q \in Seq(Pipeline!Taken) /\ Len(q) <= Buffered
    BY <2>2 DEF PipelineInv, Pipeline!TypeOK
  <2> QED BY <2>1, <2>3, LenProperties
<1>2. /\ Pipeline!Without(q, S) \in Seq(Pipeline!Taken)
      /\ Len(Pipeline!Without(q, S)) \in 0..Len(q)
      /\ Pipeline!ToSet(Pipeline!Without(q, S)) = Pipeline!ToSet(q) \ S
  BY <1>1, PipelineWithoutSet
<1>3. Pipeline!ToSet(q) \subseteq Pipeline!Taken
  BY <1>1, PipelineToSetIs
<1> QED BY <1>1, <1>2, <1>3

LEMMA PipelineStartIs ==
  ASSUME Pipeline!Assumptions, PipelineInv, NEW reached \in BOOLEAN, Pipeline!Start(reached)
  PROVE  /\ ~up /\ up' = TRUE /\ paused' \in BOOLEAN
         /\ buffered' \in Seq(Pipeline!Taken) /\ Len(buffered') <= Buffered
         /\ excused \subseteq excused' /\ excused' \subseteq Pipeline!Taken
         /\ \A n \in Pipeline!ToSet(buffer) : n \in Pipeline!ToSet(buffered')
              \/ Pipeline!Age(n) > Window \/ n \in excused'
<1> DEFINE kept == Pipeline!Without(buffer, Pipeline!Older(Window))
<1>1. ~up /\ up' = TRUE
  BY DEF Pipeline!Start
<1>2. /\ kept \in Seq(Pipeline!Taken) /\ Len(kept) <= Buffered
      /\ Pipeline!ToSet(kept) = Pipeline!ToSet(buffer) \ Pipeline!Older(Window)
      /\ Pipeline!ToSet(buffer) \subseteq Pipeline!Taken
  BY PipelineQueueTyped
<1>3. paused' \in BOOLEAN
  BY DEF Pipeline!Start, PipelineInv, Pipeline!TypeOK
<1>4. excused \subseteq excused' /\ excused' \subseteq Pipeline!Taken
  BY <1>2 DEF Pipeline!Start, PipelineInv, Pipeline!TypeOK
<1>5. CASE paused'
  <2>1. buffered' = <<>> /\ excused' = excused \cup Pipeline!ToSet(buffer)
    BY <1>5 DEF Pipeline!Start
  <2>2. Len(buffered') <= Buffered /\ buffered' \in Seq(Pipeline!Taken)
    BY <2>1 DEF Pipeline!Assumptions
  <2> QED BY <1>1, <1>3, <1>4, <2>1, <2>2
<1>6. CASE ~paused'
  <2>1. buffered' = Pipeline!Newest(kept)
    BY <1>6 DEF Pipeline!Start
  <2> HIDE DEF kept
  <2>2. buffered' = kept
    BY <1>2, <2>1, PipelineNewestSet
  <2> QED BY <1>1, <1>2, <1>3, <1>4, <2>2 DEF Pipeline!Older
<1> QED BY <1>3, <1>5, <1>6

LEMMA PipelineSendIs ==
  ASSUME Pipeline!Assumptions, PipelineInv, Pipeline!Send
  PROVE  /\ up /\ sending = {} /\ sending' \in {{0}} \cup {{n} : n \in Pipeline!Taken}
         /\ buffered' \in Seq(Pipeline!Taken) /\ Len(buffered') <= Buffered
         /\ \A n \in Pipeline!ToSet(buffered) : n \in Pipeline!ToSet(buffered')
              \/ Pipeline!Age(n) > Keep
<1> DEFINE kept == Pipeline!Without(buffered, Pipeline!Older(Keep))
<1>1. /\ kept \in Seq(Pipeline!Taken) /\ Len(kept) <= Buffered
      /\ Pipeline!ToSet(kept) = Pipeline!ToSet(buffered) \ Pipeline!Older(Keep)
  BY PipelineQueueTyped
<1>2. /\ up /\ sending = {} /\ buffered' = kept
      /\ sending' = IF kept # <<>> /\ ~paused THEN {Head(kept)} ELSE {0}
  BY DEF Pipeline!Send
<1> HIDE DEF kept
<1>3. kept # <<>> => Head(kept) \in Pipeline!Taken
  BY <1>1, HeadTailProperties
<1> QED BY <1>1, <1>2, <1>3 DEF Pipeline!Older

LEMMA PipelineReceiveIs ==
  ASSUME Pipeline!Assumptions, PipelineInv, Pipeline!Receive
  PROVE  /\ buffered' \in Seq(Pipeline!Taken) /\ Len(buffered') <= Buffered
         /\ buffer' \in {buffer, buffered'}
         /\ excused \subseteq excused' /\ excused' \subseteq Pipeline!Taken
         /\ \A n \in Pipeline!ToSet(buffered) :
              \/ n \in Pipeline!ToSet(buffered') \/ n \in excused'
              \/ answer = "running" /\ n \in sending \ {0}
<1> DEFINE q == IF answer = "paused" THEN <<>> ELSE buffered
           left == Pipeline!Without(q, sending)
<1>1. q \in {buffered, buffer, <<>>}
  OBVIOUS
<1>2. /\ left \in Seq(Pipeline!Taken) /\ Len(left) <= Buffered
      /\ Pipeline!ToSet(left) = Pipeline!ToSet(q) \ sending
      /\ Pipeline!ToSet(buffered) \subseteq Pipeline!Taken
      /\ Pipeline!ToSet(buffer) \subseteq Pipeline!Taken
  BY <1>1, PipelineQueueTyped
<1>3. /\ answer # "none" /\ buffered' = left /\ buffer' = IF sending # {0} THEN left ELSE buffer
      /\ excused' = IF answer = "paused"
           THEN excused \cup Pipeline!ToSet(buffered)
                  \cup (IF sending # {0} THEN Pipeline!ToSet(buffer) ELSE {})
           ELSE excused
  BY DEF Pipeline!Receive
<1>4. excused \subseteq Pipeline!Taken /\ answer \in {"none", "running", "paused"}
  BY DEF PipelineInv, Pipeline!TypeOK
<1>5. \A n \in Pipeline!Taken : n # 0
  BY PipelineSampleTypes DEF Pipeline!Numbers
<1>6. answer # "paused" => q = buffered
  OBVIOUS
<1> HIDE DEF left, q
<1> QED BY <1>2, <1>3, <1>4, <1>5, <1>6

LEMMA PipelineNextTyped ==
  ASSUME Pipeline!Assumptions, PipelineInv, [Pipeline!Next]_(Pipeline!vars)
  PROVE  Pipeline!TypeOK'
<1>1. Pipeline!TypeOK
  BY DEF PipelineInv
<1>2. ASSUME UNCHANGED samples PROVE Pipeline!Taken' = Pipeline!Taken
  BY <1>2 DEF Pipeline!Taken
<1>0. sending \ {0} \subseteq Pipeline!Taken
  BY <1>1 DEF Pipeline!TypeOK
<1>3. CASE Pipeline!Tick
  <2>1. ticks' \in 0..MaxAge
    BY <1>1, <1>3 DEF Pipeline!Tick, Pipeline!TypeOK, Pipeline!Assumptions
  <2> QED BY <1>1, <1>2, <1>3, <2>1
             DEF Pipeline!Tick, Pipeline!TypeOK, Pipeline!hostVars, Pipeline!agentVars,
                 Pipeline!callVars, Pipeline!serverVars
<1>4. ASSUME NEW kind \in {"boot", "interface", "driver"}, Pipeline!Reset(kind)
      PROVE  Pipeline!TypeOK'
  <2>1. resets' \in 0..MaxResets /\ identity' \in 0..MaxResets
    BY <1>1, <1>4 DEF PipelineInv, Pipeline!Reset, Pipeline!TypeOK, Pipeline!Assumptions
  <2>2. /\ sending' \in {{}, {0}} \cup {{n} : n \in Pipeline!Taken}
        /\ late' \subseteq Pipeline!Taken
        /\ answer' \in {"none", "running", "paused"} /\ up' \in BOOLEAN
        /\ buffered' \in Seq(Pipeline!Taken) /\ Len(buffered') <= Buffered
    <3>1. CASE kind = "boot" /\ up
      <4>1. /\ buffered' = <<>> /\ sending' = {} /\ late' = late \cup (sending \ {0})
            /\ up' = FALSE
            /\ answer' = "none"
        BY <1>4, <3>1 DEF Pipeline!Reset
      <4>2. <<>> \in Seq(Pipeline!Taken) /\ Len(<<>>) <= Buffered
        BY DEF Pipeline!Assumptions
      <4> QED BY <1>0, <1>1, <4>1, <4>2 DEF Pipeline!TypeOK
    <3>2. CASE ~(kind = "boot" /\ up)
      BY <1>1, <1>4, <3>2
         DEF Pipeline!Reset, Pipeline!TypeOK, Pipeline!agentVars, Pipeline!callVars
    <3> QED BY <3>1, <3>2
  <2>3. UNCHANGED <<samples, starts, paused, buffer>>
    BY <1>4 DEF Pipeline!Reset, Pipeline!agentVars
  <2> QED BY <1>1, <1>2, <1>4, <2>1, <2>2, <2>3
             DEF Pipeline!Reset, Pipeline!TypeOK, Pipeline!serverVars
<1>5. CASE Pipeline!Configure
  <2>1. toggles' \in 0..MaxToggles
    BY <1>1, <1>5 DEF Pipeline!Configure, Pipeline!TypeOK, Pipeline!Assumptions
  <2> QED BY <1>1, <1>2, <1>5, <2>1
             DEF Pipeline!Configure, Pipeline!TypeOK, Pipeline!hostVars, Pipeline!agentVars,
                 Pipeline!callVars
<1>6. ASSUME NEW reached \in BOOLEAN, Pipeline!Start(reached) PROVE Pipeline!TypeOK'
  <2>1. starts' \in 0..MaxStarts
    BY <1>1, <1>6 DEF Pipeline!Start, Pipeline!TypeOK, Pipeline!Assumptions
  <2>2. /\ up' = TRUE /\ paused' \in BOOLEAN
        /\ buffered' \in Seq(Pipeline!Taken) /\ Len(buffered') <= Buffered
        /\ excused' \subseteq Pipeline!Taken
    BY <1>6, PipelineStartIs
  <2> QED BY <1>1, <1>2, <1>6, <2>1, <2>2
             DEF Pipeline!Start, Pipeline!TypeOK, Pipeline!hostVars, Pipeline!callVars,
                 Pipeline!serverVars
<1>7. CASE Pipeline!Crash
  <2>1. buffered' = <<>> /\ sending' = {} /\ late' \subseteq Pipeline!Taken
    BY <1>0, <1>1, <1>7 DEF Pipeline!Crash, Pipeline!TypeOK
  <2>2. <<>> \in Seq(Pipeline!Taken) /\ Len(<<>>) <= Buffered
    BY DEF Pipeline!Assumptions
  <2> QED BY <1>1, <1>2, <1>7, <2>1, <2>2
             DEF Pipeline!Crash, Pipeline!TypeOK, Pipeline!hostVars, Pipeline!serverVars
<1>8. ASSUME NEW bytes \in 0..MaxBytes, NEW same \in BOOLEAN, Pipeline!Collect(bytes, same)
      PROVE  Pipeline!TypeOK'
  BY <1>8, PipelineCollectTyped
<1>9. CASE Pipeline!CollectPaused
  BY <1>1, <1>2, <1>9
     DEF Pipeline!CollectPaused, Pipeline!TypeOK, Pipeline!hostVars, Pipeline!callVars,
         Pipeline!serverVars
<1>10. CASE Pipeline!Send
  <2>1. /\ sending' \in {{}, {0}} \cup {{n} : n \in Pipeline!Taken}
        /\ buffered' \in Seq(Pipeline!Taken) /\ Len(buffered') <= Buffered
    BY <1>10, PipelineSendIs
  <2> QED BY <1>1, <1>2, <1>10, <2>1
             DEF Pipeline!Send, Pipeline!TypeOK, Pipeline!hostVars, Pipeline!serverVars
<1>11. CASE Pipeline!Fallback
  BY <1>1, <1>2, <1>11
     DEF Pipeline!Fallback, Pipeline!TypeOK, Pipeline!hostVars, Pipeline!agentVars,
         Pipeline!serverVars
<1>12. CASE Pipeline!GiveUp
  BY <1>1, <1>2, <1>12
     DEF Pipeline!GiveUp, Pipeline!TypeOK, Pipeline!hostVars, Pipeline!agentVars,
         Pipeline!serverVars
<1>13. CASE Pipeline!Receive
  <2>1. /\ buffered' \in Seq(Pipeline!Taken) /\ Len(buffered') <= Buffered
        /\ buffer' \in {buffer, buffered'}
        /\ excused' \subseteq Pipeline!Taken
    BY <1>13, PipelineReceiveIs
  <2> QED BY <1>1, <1>2, <1>13, <2>1
             DEF Pipeline!Receive, Pipeline!TypeOK, Pipeline!hostVars, Pipeline!serverVars
<1>14. CASE \E n \in Pipeline!Numbers : Pipeline!Lose(n)
  BY <1>1, <1>2, <1>14
     DEF Pipeline!Lose, Pipeline!TypeOK, Pipeline!hostVars, Pipeline!agentVars,
         Pipeline!serverVars
<1>15. CASE Pipeline!Report \/ \E n \in Pipeline!Numbers : Pipeline!ReportLate(n)
  BY <1>15, PipelineReportTyped
<1>16. CASE Pipeline!Purge
  BY <1>1, <1>2, <1>16
     DEF Pipeline!Purge, Pipeline!TypeOK, Pipeline!hostVars, Pipeline!agentVars,
         Pipeline!callVars
<1>17. CASE UNCHANGED Pipeline!vars
  BY <1>1, <1>2, <1>17
     DEF Pipeline!vars, Pipeline!TypeOK, Pipeline!hostVars, Pipeline!agentVars,
         Pipeline!callVars, Pipeline!serverVars
<1> QED BY <1>3, <1>4, <1>5, <1>6, <1>7, <1>8, <1>9, <1>10, <1>11, <1>12, <1>13, <1>14, <1>15,
           <1>16, <1>17 DEF Pipeline!Next

\* Steps that leave the host, its samples and the server's account of them.
PipelineQuiet == UNCHANGED <<ticks, Pipeline!hostVars, samples, stored, latest, traffic, first,
                             recorded>>

PipelineCollecting ==
  \E bytes \in 0..MaxBytes, same \in BOOLEAN : Pipeline!Collect(bytes, same)
PipelineReporting ==
  /\ UNCHANGED <<ticks, Pipeline!hostVars, samples>>
  /\ PipelineUnread \/ \E n \in Pipeline!Taken : Pipeline!Age(n) <= Window /\ PipelineCounts(n)
PipelineResetting ==
  /\ resets' = resets + 1 /\ counter' = 0 /\ identity' \in {identity, identity + 1}
  /\ UNCHANGED <<ticks, moved, samples, stored, latest, traffic, first, recorded>>

LEMMA PipelineStepIs ==
  ASSUME Pipeline!Assumptions, PipelineInv, [Pipeline!Next]_(Pipeline!vars)
  PROVE  PipelineQuiet \/ Pipeline!Tick \/ PipelineResetting \/ PipelineCollecting
           \/ PipelineReporting \/ Pipeline!Purge
<1>1. CASE Pipeline!Report \/ \E n \in Pipeline!Numbers : Pipeline!ReportLate(n)
  BY <1>1, PipelineReportIs DEF PipelineReporting, Pipeline!agentVars
<1>2. ASSUME NEW kind \in {"boot", "interface", "driver"}, Pipeline!Reset(kind)
      PROVE  PipelineResetting
  BY <1>2 DEF Pipeline!Reset, PipelineResetting, Pipeline!agentVars, Pipeline!serverVars
<1>3. ASSUME NEW reached \in BOOLEAN, Pipeline!Start(reached) PROVE PipelineQuiet
  BY <1>3 DEF Pipeline!Start, PipelineQuiet, Pipeline!serverVars
<1>4. CASE Pipeline!Configure \/ Pipeline!Crash \/ Pipeline!CollectPaused \/ Pipeline!Send
             \/ Pipeline!Fallback \/ Pipeline!GiveUp \/ Pipeline!Receive
  BY <1>4
     DEF Pipeline!Configure, Pipeline!Crash, Pipeline!CollectPaused, Pipeline!Send,
         Pipeline!Fallback, Pipeline!GiveUp, Pipeline!Receive, PipelineQuiet,
         Pipeline!agentVars, Pipeline!serverVars
<1>5. CASE \E n \in Pipeline!Numbers : Pipeline!Lose(n)
  BY <1>5 DEF Pipeline!Lose, PipelineQuiet, Pipeline!agentVars, Pipeline!serverVars
<1>6. CASE UNCHANGED Pipeline!vars
  BY <1>6 DEF Pipeline!vars, PipelineQuiet, Pipeline!agentVars, Pipeline!serverVars
<1> QED BY <1>1, <1>2, <1>3, <1>4, <1>5, <1>6 DEF Pipeline!Next, PipelineCollecting

LEMMA PipelineNextOrders ==
  ASSUME Pipeline!Assumptions, PipelineInv, [Pipeline!Next]_(Pipeline!vars)
  PROVE  identity' <= resets' /\ PipelineInOrder'
<1>1. /\ PipelineInOrder /\ identity <= resets /\ identity \in Nat /\ resets \in Nat
      /\ ticks \in Nat
      /\ counter \in Nat /\ moved \in Nat
  BY DEF PipelineInv, Pipeline!TypeOK
<1>2. CASE PipelineQuiet \/ PipelineReporting \/ Pipeline!Purge
  <2>1. UNCHANGED <<ticks, Pipeline!hostVars, samples>>
    BY <1>2 DEF PipelineQuiet, PipelineReporting, Pipeline!Purge, Pipeline!agentVars
  <2> QED BY <1>1, <2>1 DEF Pipeline!hostVars, PipelineInOrder, Pipeline!Taken, PipelineNow
<1>3. CASE Pipeline!Tick
  <2>1. UNCHANGED <<Pipeline!hostVars, samples>> /\ ticks' = ticks + 1
    BY <1>3 DEF Pipeline!Tick, Pipeline!agentVars
  <2>2. ASSUME NEW i \in Pipeline!Taken PROVE PipelineBefore(samples[i], PipelineNow')
    <3>1. PipelineBefore(samples[i], PipelineNow) /\ samples[i].at \in Nat
      BY <1>1, PipelineSampleTypes DEF PipelineInOrder
    <3> QED BY <1>1, <2>1, <3>1 DEF PipelineBefore, PipelineNow, Pipeline!hostVars
  <2> QED BY <1>1, <2>1, <2>2 DEF Pipeline!hostVars, PipelineInOrder, Pipeline!Taken
<1>4. CASE PipelineResetting
  <2>1. identity' <= resets'
    BY <1>1, <1>4 DEF PipelineResetting
  <2>2. ASSUME NEW i \in Pipeline!Taken PROVE PipelineBefore(samples[i], PipelineNow')
    <3>1. /\ PipelineBefore(samples[i], PipelineNow) /\ samples[i].moved \in Nat
          /\ samples[i].resets \in Nat
      BY <1>1, PipelineSampleTypes DEF PipelineInOrder
    <3> QED BY <1>1, <1>4, <3>1 DEF PipelineBefore, PipelineNow, PipelineResetting
  <2> QED BY <1>1, <1>4, <2>1, <2>2 DEF PipelineResetting, PipelineInOrder, Pipeline!Taken
<1>5. ASSUME NEW bytes \in 0..MaxBytes, NEW same \in BOOLEAN, Pipeline!Collect(bytes, same)
      PROVE  identity' <= resets' /\ PipelineInOrder'
  <2> DEFINE n == Len(samples) + 1
  <2>1. /\ n \in Nat /\ Pipeline!Taken' = 1..n /\ Pipeline!Taken = 1..(n - 1)
        /\ \A i \in Pipeline!Taken : i \in Pipeline!Taken' /\ i < n /\ samples'[i] = samples[i]
        /\ \A i \in Pipeline!Taken' : i = n \/ i \in Pipeline!Taken
        /\ samples'[n] = [at |-> ticks, second |-> IF same THEN samples[n - 1].second ELSE n,
                          counter |-> counter', identity |-> identity, resets |-> resets,
                          moved |-> moved']
        /\ counter' = counter + bytes /\ moved' = moved + bytes
    BY <1>5, PipelineCollectIs
  <2>2. UNCHANGED <<ticks, identity, resets>> /\ bytes \in Nat
    BY <1>5 DEF Pipeline!Collect, Pipeline!Assumptions
  <2> HIDE DEF n
  <2>3. PipelineNow' = [at |-> ticks, counter |-> counter', identity |-> identity,
                        resets |-> resets,
                moved |-> moved']
    BY <2>2 DEF PipelineNow
  <2>4. ASSUME NEW i \in Pipeline!Taken PROVE PipelineBefore(samples[i], PipelineNow')
    <3>1. /\ PipelineBefore(samples[i], PipelineNow) /\ samples[i].moved \in Nat
          /\ samples[i].resets \in Nat
          /\ samples[i].counter \in Nat
      BY <1>1, PipelineSampleTypes DEF PipelineInOrder
    <3>2. counter' = counter + bytes /\ moved' = moved + bytes
      BY <2>1
    <3> QED BY <1>1, <2>2, <2>3, <3>1, <3>2 DEF PipelineBefore, PipelineNow
  <2>5. \A x : PipelineBefore(x, PipelineNow') => PipelineBefore(x, samples'[n])
    BY <2>1, <2>3 DEF PipelineBefore
  <2>6. PipelineBefore(samples'[n], PipelineNow')
    BY <1>1, <2>1, <2>2, <2>3 DEF PipelineBefore
  <2>7. ASSUME NEW i \in Pipeline!Taken', NEW j \in Pipeline!Taken', i < j
        PROVE  PipelineBefore(samples'[i], samples'[j])
    <3>1. i \in Pipeline!Taken
      BY <2>1, <2>7
    <3>2. CASE j = n
      BY <2>1, <2>4, <2>5, <3>1, <3>2
    <3>3. CASE j \in Pipeline!Taken
      BY <1>1, <2>1, <2>7, <3>1, <3>3 DEF PipelineInOrder
    <3> QED BY <2>1, <3>2, <3>3
  <2>8. \A i \in Pipeline!Taken' : PipelineBefore(samples'[i], PipelineNow')
    BY <2>1, <2>4, <2>6
  <2> QED BY <1>1, <2>2, <2>7, <2>8 DEF PipelineInOrder
<1> QED BY <1>2, <1>3, <1>4, <1>5, PipelineStepIs DEF PipelineCollecting

\* What happens to the samples that are there: nothing.
LEMMA PipelineSamplesStay ==
  ASSUME Pipeline!Assumptions, PipelineInv, [Pipeline!Next]_(Pipeline!vars)
  PROVE  /\ Pipeline!Taken \subseteq Pipeline!Taken'
         /\ \A i \in Pipeline!Taken : samples'[i] = samples[i]
         /\ ticks' \in {ticks, ticks + 1}
<1>1. CASE UNCHANGED samples
  BY <1>1, PipelineStepIs
     DEF Pipeline!Taken, PipelineQuiet, Pipeline!Tick, PipelineResetting, PipelineReporting,
         Pipeline!Purge, PipelineCollecting, Pipeline!Collect
<1>2. CASE PipelineCollecting
  <2>1. Pipeline!Taken \subseteq Pipeline!Taken'
          /\ \A i \in Pipeline!Taken : samples'[i] = samples[i]
    BY <1>2, PipelineCollectIs DEF PipelineCollecting
  <2> QED BY <1>2, <2>1 DEF PipelineCollecting, Pipeline!Collect
<1> QED BY <1>1, <1>2, PipelineStepIs
           DEF PipelineQuiet, Pipeline!Tick, PipelineResetting, PipelineReporting,
               Pipeline!Purge, Pipeline!agentVars

LEMMA PipelineNextSeconds ==
  ASSUME Pipeline!Assumptions, PipelineInv, [Pipeline!Next]_(Pipeline!vars)
  PROVE  PipelineSeconds'
<1>1. PipelineSeconds
  BY DEF PipelineInv
<1>2. CASE UNCHANGED samples
  BY <1>1, <1>2 DEF PipelineSeconds, PipelineSecondOf, Pipeline!Taken
<1>3. ASSUME NEW bytes \in 0..MaxBytes, NEW same \in BOOLEAN, Pipeline!Collect(bytes, same)
      PROVE  PipelineSeconds'
  <2> DEFINE n == Len(samples) + 1
  <2>1. /\ n \in Nat /\ Pipeline!Taken' = 1..n /\ Pipeline!Taken = 1..(n - 1)
        /\ \A i \in Pipeline!Taken : samples'[i] = samples[i]
        /\ \A i \in Pipeline!Taken' : i = n \/ i \in Pipeline!Taken
        /\ samples'[n] = [at |-> ticks, second |-> IF same THEN samples[n - 1].second ELSE n,
                          counter |-> counter', identity |-> identity, resets |-> resets,
                          moved |-> moved']
        /\ same => n > 1 /\ samples[n - 1].at = ticks
    BY <1>3, PipelineCollectIs
  <2>2. n \in Pipeline!Numbers
    BY <1>3, PipelineCollectIs
  <2> HIDE DEF n
  <2> DEFINE s(i) == samples'[i].second
  <2>3. ASSUME NEW i \in Pipeline!Taken
        PROVE  s(i) \in 1..i /\ s(i) \in Pipeline!Taken /\ s(s(i)) = s(i)
                 /\ samples'[s(i)].at = samples'[i].at
    <3>1. /\ PipelineSecondOf(i) \in 1..i
          /\ PipelineSecondOf(PipelineSecondOf(i)) = PipelineSecondOf(i)
          /\ samples[PipelineSecondOf(i)].at = samples[i].at
      BY <1>1 DEF PipelineSeconds
    <3>2. PipelineSecondOf(i) \in Pipeline!Taken
      BY <2>1, <3>1
    <3> QED BY <2>1, <3>1, <3>2 DEF PipelineSecondOf
  <2>4. s(n) \in 1..n /\ s(s(n)) = s(n) /\ samples'[s(n)].at = samples'[n].at
    <3>1. CASE ~same
      <4>1. s(n) = n
        BY <2>1, <3>1
      <4> QED BY <2>1, <2>2, <4>1 DEF Pipeline!Numbers
    <3>2. CASE same
      <4>1. /\ n - 1 \in Pipeline!Taken /\ samples[n - 1].at = ticks
            /\ samples'[n - 1] = samples[n - 1]
        BY <2>1, <3>2
      <4>2. s(n) = s(n - 1)
        BY <2>1, <3>2, <4>1
      <4>3. /\ s(n - 1) \in 1..(n - 1) /\ s(s(n - 1)) = s(n - 1)
            /\ samples'[s(n - 1)].at = samples'[n - 1].at
        BY <2>3, <4>1
      <4>4. samples'[n - 1].at = ticks /\ samples'[n].at = ticks
        BY <2>1, <4>1
      <4> HIDE DEF s
      <4> QED BY <2>1, <4>2, <4>3, <4>4
    <3> QED BY <3>1, <3>2
  <2>5. \A i \in Pipeline!Taken' : s(i) \in 1..i /\ s(s(i)) = s(i)
          /\ samples'[s(i)].at = samples'[i].at
    <3> HIDE DEF s
    <3> QED BY <2>1, <2>3, <2>4
  <2> QED BY <2>5 DEF PipelineSeconds, PipelineSecondOf
<1> QED BY <1>2, <1>3, PipelineStepIs
           DEF PipelineQuiet, Pipeline!Tick, PipelineResetting, PipelineReporting,
               Pipeline!Purge, PipelineCollecting, Pipeline!agentVars

\* The seconds of the samples that are there stay, and new ones are of this moment.
LEMMA PipelineSecondsStay ==
  ASSUME Pipeline!Assumptions, PipelineInv, [Pipeline!Next]_(Pipeline!vars),
         NEW n \in Pipeline!Taken
  PROVE  n \in Pipeline!Taken' /\ samples'[n].at = samples[n].at
           /\ samples'[n].second = PipelineSecondOf(n)
BY PipelineSamplesStay DEF PipelineSecondOf

LEMMA PipelineNextKnows ==
  ASSUME Pipeline!Assumptions, PipelineInv, [Pipeline!Next]_(Pipeline!vars)
  PROVE  PipelineRowsCounted' /\ PipelineKnownOrOld'
<1> DEFINE R == \A n \in DOMAIN stored' :
                  stored'[n] >= samples'[n].at /\ recorded'[samples'[n].second] = 1
           K(s) == /\ recorded'[s] \in {0, 1}
                   /\ recorded'[s] = 1 =>
                        /\ s \in Pipeline!Taken' /\ samples'[s].second = s
                        /\ \/ \E n \in DOMAIN stored' : samples'[n].second = s
                           \/ ticks' - samples'[s].at > Window
<1> SUFFICES R /\ \A s \in Pipeline!Numbers : K(s)
  BY DEF PipelineRowsCounted, PipelineKnownOrOld, PipelineSecondOf
<1>1. /\ DOMAIN stored \subseteq Pipeline!Taken
      /\ \A n \in DOMAIN stored : stored[n] \in 0..MaxAge
      /\ ticks \in 0..MaxAge /\ recorded \in [Pipeline!Numbers -> Nat] /\ Window \in Nat
      /\ Retention \in Nat
      /\ Window < Retention /\ MaxAge \in Nat
  BY DEF PipelineInv, Pipeline!TypeOK, Pipeline!Assumptions
<1>2. \A n \in DOMAIN stored : stored[n] >= samples[n].at /\ recorded[PipelineSecondOf(n)] = 1
  BY DEF PipelineInv, PipelineRowsCounted
<1>3. \A s \in Pipeline!Numbers :
        /\ recorded[s] \in {0, 1}
        /\ recorded[s] = 1 =>
             /\ s \in Pipeline!Taken /\ PipelineSecondOf(s) = s
             /\ (\E n \in DOMAIN stored : PipelineSecondOf(n) = s)
                  \/ ticks - samples[s].at > Window
  BY DEF PipelineInv, PipelineKnownOrOld
<1>4. /\ \A n \in Pipeline!Taken : /\ n \in Pipeline!Taken' /\ samples'[n].at = samples[n].at
                                   /\ samples'[n].second = PipelineSecondOf(n)
                                   /\ samples[n].at \in 0..MaxAge
      /\ ticks' \in {ticks, ticks + 1}
  BY PipelineSecondsStay, PipelineSamplesStay, PipelineSampleTypes
<1>5. CASE UNCHANGED <<stored, recorded>>
  <2>1. R
    BY <1>1, <1>2, <1>4, <1>5
  <2>2. ASSUME NEW s \in Pipeline!Numbers PROVE K(s)
    <3>1. CASE recorded[s] = 1
      <4>1. s \in Pipeline!Taken /\ PipelineSecondOf(s) = s /\ recorded'[s] = 1
        BY <1>3, <1>5, <3>1
      <4>2. CASE \E n \in DOMAIN stored : PipelineSecondOf(n) = s
        BY <1>1, <1>4, <1>5, <4>1, <4>2
      <4>3. CASE ticks - samples[s].at > Window
        BY <1>1, <1>4, <4>1, <4>3
      <4> QED BY <1>3, <3>1, <4>2, <4>3
    <3>2. CASE recorded[s] # 1
      BY <1>3, <1>5, <3>2
    <3> QED BY <3>1, <3>2
  <2> QED BY <2>1, <2>2
<1>6. ASSUME NEW n \in Pipeline!Taken, Pipeline!Age(n) <= Window, PipelineCounts(n),
             UNCHANGED <<ticks, samples>>
      PROVE  R /\ \A s \in Pipeline!Numbers : K(s)
  <2> DEFINE t == PipelineSecondOf(n)
  <2>1. /\ t \in Pipeline!Taken /\ t \in Pipeline!Numbers /\ PipelineSecondOf(t) = t
        /\ samples[t].at = samples[n].at
    <3>1. /\ t \in Pipeline!Numbers /\ t \in 1..n /\ PipelineSecondOf(t) = t
          /\ samples[t].at = samples[n].at
      BY PipelineSampleTypes DEF PipelineInv, PipelineSeconds
    <3>2. Len(samples) \in Nat /\ n \in 1..Len(samples)
      BY LenProperties DEF PipelineInv, Pipeline!TypeOK, Pipeline!Taken
    <3> QED BY <3>1, <3>2 DEF Pipeline!Taken
  <2>2. \A m \in DOMAIN stored : PipelineSecondOf(m) # t
    BY <1>6 DEF PipelineCounts
  <2>3. recorded[t] = 0
    <3>1. ~(ticks - samples[t].at > Window)
      BY <1>1, <1>4, <1>6, <2>1 DEF Pipeline!Age
    <3> QED BY <1>3, <2>1, <2>2, <3>1
  <2>4. /\ recorded' = [recorded EXCEPT ![t] = recorded[t] + 1]
        /\ DOMAIN stored' = DOMAIN stored \cup {n} /\ stored'[n] = ticks
        /\ \A m \in DOMAIN stored : stored'[m] = stored[m]
    BY <1>6 DEF PipelineCounts
  <2> HIDE DEF t
  <2>5. recorded'[t] = 1 /\ \A s \in Pipeline!Numbers : s # t => recorded'[s] = recorded[s]
    BY <1>1, <2>1, <2>3, <2>4
  <2>6. samples[n].at <= ticks
    BY DEF PipelineInv, PipelineInOrder, PipelineBefore, PipelineNow
  <2>7. R
    <3>1. ASSUME NEW m \in DOMAIN stored
          PROVE  stored'[m] >= samples'[m].at /\ recorded'[samples'[m].second] = 1
      <4>1. /\ m \in Pipeline!Taken /\ PipelineSecondOf(m) \in Pipeline!Numbers
            /\ PipelineSecondOf(m) # t
        BY <1>1, <2>2, PipelineSampleTypes
      <4> QED BY <1>2, <1>4, <2>4, <2>5, <4>1
    <3>2. stored'[n] >= samples'[n].at /\ recorded'[samples'[n].second] = 1
      BY <1>4, <2>4, <2>5, <2>6 DEF t
    <3> QED BY <2>4, <3>1, <3>2
  <2>8. ASSUME NEW s \in Pipeline!Numbers PROVE K(s)
    <3>1. CASE s = t
      BY <1>4, <2>1, <2>4, <2>5, <3>1 DEF t
    <3>2. CASE s # t /\ recorded[s] = 1
      <4>1. s \in Pipeline!Taken /\ PipelineSecondOf(s) = s /\ recorded'[s] = 1
        BY <1>3, <2>5, <3>2
      <4>2. CASE \E m \in DOMAIN stored : PipelineSecondOf(m) = s
        BY <1>1, <1>4, <2>4, <4>1, <4>2
      <4>3. CASE ticks - samples[s].at > Window
        BY <1>1, <1>4, <4>1, <4>3
      <4> QED BY <1>3, <3>2, <4>2, <4>3
    <3>3. CASE s # t /\ recorded[s] # 1
      BY <1>3, <2>5, <3>3
    <3> QED BY <3>1, <3>2, <3>3
  <2> QED BY <2>7, <2>8
<1>7. CASE Pipeline!Purge
  <2> DEFINE old == {n \in DOMAIN stored : ticks - stored[n] > Retention}
  <2>1. /\ stored' = [n \in DOMAIN stored \ old |-> stored[n]] /\ UNCHANGED <<ticks, recorded>>
    BY <1>7 DEF Pipeline!Purge
  <2>2. DOMAIN stored' = DOMAIN stored \ old /\ \A n \in DOMAIN stored' : stored'[n] = stored[n]
    BY <2>1
  <2>3. R
    BY <1>1, <1>2, <1>4, <2>1, <2>2
  <2>4. ASSUME NEW s \in Pipeline!Numbers PROVE K(s)
    <3>1. CASE recorded[s] = 1
      <4>1. s \in Pipeline!Taken /\ PipelineSecondOf(s) = s /\ recorded'[s] = 1
        BY <1>3, <2>1, <3>1
      <4>2. ASSUME NEW n \in DOMAIN stored, PipelineSecondOf(n) = s PROVE K(s)
        <5>1. CASE n \notin old
          BY <1>1, <1>4, <2>2, <4>1, <4>2, <5>1
        <5>2. CASE n \in old
          <6>1. /\ n \in Pipeline!Taken /\ samples[s].at = samples[n].at
                /\ stored[n] >= samples[n].at
                /\ ticks - stored[n] > Retention /\ stored[n] \in 0..MaxAge
            BY <1>1, <1>2, <4>2, <5>2 DEF PipelineInv, PipelineSeconds
          <6>2. samples[n].at \in 0..MaxAge
            BY <1>4, <6>1
          <6>3. ticks - samples[s].at > Window
            BY <1>1, <6>1, <6>2
          <6> QED BY <1>4, <2>1, <4>1, <6>3
        <5> QED BY <5>1, <5>2
      <4>3. CASE ticks - samples[s].at > Window
        BY <1>1, <1>4, <4>1, <4>3
      <4> QED BY <1>3, <3>1, <4>2, <4>3
    <3>2. CASE recorded[s] # 1
      BY <1>3, <2>1, <3>2
    <3> QED BY <3>1, <3>2
  <2> QED BY <2>3, <2>4
<1> HIDE DEF R, K
<1>8. CASE PipelineReporting
  BY <1>5, <1>6, <1>8 DEF PipelineReporting, PipelineUnread
<1>9. CASE PipelineQuiet \/ Pipeline!Tick \/ PipelineResetting \/ PipelineCollecting
  BY <1>5, <1>9
     DEF PipelineQuiet, Pipeline!Tick, PipelineResetting, PipelineCollecting, Pipeline!Collect,
         Pipeline!serverVars
<1> QED BY <1>7, <1>8, <1>9, PipelineStepIs

LEMMA PipelineNextTotals ==
  ASSUME Pipeline!Assumptions, PipelineInv, [Pipeline!Next]_(Pipeline!vars)
  PROVE  PipelineTotals'
<1>1. /\ latest \in Pipeline!Taken \cup {0} /\ first \in Pipeline!Taken \cup {0}
      /\ traffic \in Nat
      /\ latest = 0 => first = 0 /\ traffic = 0
      /\ latest # 0 => first \in 1..latest
      /\ latest # 0 =>
           /\ traffic <= samples[latest].moved - samples[first].moved
           /\ samples[first].resets = samples[latest].resets =>
                traffic = samples[latest].moved - samples[first].moved
  BY DEF PipelineInv, Pipeline!TypeOK, PipelineTotals, Pipeline!TrafficCounted
<1>2. /\ \A n \in Pipeline!Taken : samples'[n] = samples[n]
      /\ \A n \in Pipeline!Taken : n \in Nat /\ n # 0 /\ samples[n].moved \in Nat
           /\ samples[n].resets \in Nat
  BY PipelineSamplesStay, PipelineSampleTypes DEF Pipeline!Numbers
<1>3. CASE UNCHANGED <<latest, first, traffic>>
  <2>1. latest # 0 => first \in Pipeline!Taken /\ latest \in Pipeline!Taken
    BY <1>1, <1>2
  <2> QED BY <1>1, <1>2, <1>3, <2>1 DEF PipelineTotals, Pipeline!TrafficCounted
<1>4. ASSUME NEW n \in Pipeline!Taken, PipelineCounts(n), UNCHANGED <<ticks, samples>>
      PROVE  PipelineTotals'
  <2>1. /\ Pipeline!Gain(n) \in Nat
        /\ n <= latest \/ latest = 0 => Pipeline!Gain(n) = 0
        /\ n > latest /\ latest # 0 =>
             /\ Pipeline!Gain(n) <= samples[n].moved - samples[latest].moved
             /\ samples[n].resets = samples[latest].resets =>
                  Pipeline!Gain(n) = samples[n].moved - samples[latest].moved
    BY PipelineGainIs
  <2>2. /\ traffic' = traffic + Pipeline!Gain(n)
        /\ latest' = (IF latest = 0 \/ n > latest THEN n ELSE latest)
        /\ first' = (IF first = 0 THEN n ELSE first)
    BY <1>4 DEF PipelineCounts, Pipeline!Ordered
  <2>3. n \in Nat /\ n # 0
    BY <1>2
  <2>4. CASE latest = 0
    <3>1. latest' = n /\ first' = n /\ traffic' = 0 /\ n \in 1..n
      BY <1>1, <2>1, <2>2, <2>3, <2>4
    <3> QED BY <1>2, <1>4, <2>3, <3>1 DEF PipelineTotals, Pipeline!TrafficCounted
  <2>5. CASE latest # 0 /\ n <= latest
    <3>1. UNCHANGED <<latest, first, traffic>>
      BY <1>1, <1>2, <2>1, <2>2, <2>3, <2>5
    <3> QED BY <1>3, <3>1
  <2>6. CASE latest # 0 /\ ~(n <= latest)
    <3>1. /\ latest \in Pipeline!Taken /\ first \in Pipeline!Taken /\ first \in 1..latest
          /\ latest \in Nat /\ n > latest
      BY <1>1, <1>2, <2>3, <2>6
    <3>2. latest' = n /\ first' = first /\ first \in 1..n
      BY <1>2, <2>2, <2>3, <3>1
    <3>3. /\ samples[first].resets <= samples[latest].resets
          /\ samples[latest].resets <= samples[n].resets
      <4>1. samples[latest].resets <= samples[n].resets
        BY <3>1 DEF PipelineInv, PipelineInOrder, PipelineBefore
      <4>2. CASE first = latest
        BY <1>2, <3>1, <4>1, <4>2
      <4>3. CASE first # latest
        <5>1. first < latest
          BY <3>1, <4>3
        <5> QED BY <3>1, <4>1, <5>1 DEF PipelineInv, PipelineInOrder, PipelineBefore
      <4> QED BY <4>2, <4>3
    <3> DEFINE a == samples[first].moved
               b == samples[latest].moved
               c == samples[n].moved
               x == samples[first].resets
               y == samples[latest].resets
               z == samples[n].resets
    <3>4. /\ a \in Nat /\ b \in Nat /\ c \in Nat /\ x \in Nat /\ y \in Nat /\ z \in Nat
          /\ x <= y /\ y <= z /\ traffic \in Nat /\ Pipeline!Gain(n) \in Nat
          /\ traffic <= b - a /\ (x = y => traffic = b - a)
          /\ Pipeline!Gain(n) <= c - b /\ (z = y => Pipeline!Gain(n) = c - b)
      BY <1>1, <1>2, <2>1, <2>6, <3>1, <3>3
    <3> HIDE DEF a, b, c, x, y, z
    <3>5. traffic + Pipeline!Gain(n) <= c - a /\ (x = z => traffic + Pipeline!Gain(n) = c - a)
      BY <3>4
    <3> QED BY <1>4, <2>2, <2>3, <3>2, <3>5
               DEF PipelineTotals, Pipeline!TrafficCounted, a, c, x, z
  <2> QED BY <2>4, <2>5, <2>6
<1>5. CASE PipelineReporting
  BY <1>3, <1>4, <1>5 DEF PipelineReporting, PipelineUnread
<1>6. CASE ~PipelineReporting
  BY <1>3, <1>6, PipelineStepIs
     DEF PipelineQuiet, Pipeline!Tick, PipelineResetting, PipelineCollecting, Pipeline!Collect,
         Pipeline!Purge, Pipeline!serverVars
<1> QED BY <1>5, <1>6

\* What is counted stays counted.
LEMMA PipelineCountsStay ==
  ASSUME Pipeline!Assumptions, PipelineInv, [Pipeline!Next]_(Pipeline!vars),
         NEW n \in Pipeline!Taken, recorded[PipelineSecondOf(n)] > 0
  PROVE  recorded'[samples'[n].second] > 0
<1>1. /\ PipelineSecondOf(n) \in Pipeline!Numbers /\ samples'[n].second = PipelineSecondOf(n)
      /\ recorded \in [Pipeline!Numbers -> Nat]
  BY PipelineSampleTypes, PipelineSecondsStay DEF PipelineInv, Pipeline!TypeOK
<1>2. CASE UNCHANGED recorded
  BY <1>1, <1>2
<1>3. ASSUME NEW m \in Pipeline!Taken, PipelineCounts(m)
      PROVE  recorded'[PipelineSecondOf(n)] > 0
  <2>1. PipelineSecondOf(m) \in Pipeline!Numbers
    BY PipelineSampleTypes
  <2> QED BY <1>1, <1>3, <2>1 DEF PipelineCounts
<1> QED BY <1>1, <1>2, <1>3, PipelineStepIs
           DEF PipelineQuiet, Pipeline!Tick, PipelineResetting, PipelineCollecting,
               Pipeline!Collect, Pipeline!Purge, Pipeline!serverVars, PipelineReporting,
               PipelineUnread

LEMMA PipelineNextCalls ==
  ASSUME Pipeline!Assumptions, PipelineInv, [Pipeline!Next]_(Pipeline!vars)
  PROVE  PipelineCalling'
<1>1. /\ sending # {} => up
      /\ sending = {} => answer = "none"
      /\ answer = "running" => \A n \in sending \ {0} : recorded[PipelineSecondOf(n)] = 1
      /\ sending \ {0} \subseteq Pipeline!Taken /\ up \in BOOLEAN
  BY DEF PipelineInv, PipelineCalling, Pipeline!TypeOK
<1>2. ASSUME NEW n \in Pipeline!Taken, recorded[PipelineSecondOf(n)] = 1
      PROVE  recorded'[samples'[n].second] = 1
  <2>1. recorded'[samples'[n].second] > 0
    BY <1>2, PipelineCountsStay
  <2>2. samples'[n].second \in Pipeline!Numbers
    BY PipelineSecondsStay, PipelineSampleTypes
  <2>3. PipelineKnownOrOld'
    BY PipelineNextKnows
  <2> QED BY <2>1, <2>2, <2>3 DEF PipelineKnownOrOld
<1>3. CASE sending' = sending /\ answer' \in {answer, "none"} /\ (up => up')
  BY <1>1, <1>2, <1>3 DEF PipelineCalling, PipelineSecondOf
<1>4. CASE sending' = {} /\ answer' = "none"
  BY <1>4 DEF PipelineCalling
<1>5. CASE Pipeline!Send
  BY <1>1, <1>5, PipelineSendIs DEF Pipeline!Send, PipelineCalling
<1>6. CASE Pipeline!Report
  <2>1. /\ sending # {} /\ answer = "none" /\ UNCHANGED <<sending, up, samples, ticks, setting>>
        /\ answer' = IF setting THEN "paused" ELSE "running"
    BY <1>6 DEF Pipeline!Report, Pipeline!agentVars
  <2>2. ASSUME ~setting, NEW n \in sending \ {0} PROVE recorded'[samples'[n].second] = 1
    <3>1. n \in Pipeline!Taken /\ sending = {n}
      BY <2>2 DEF PipelineInv, Pipeline!TypeOK
    <3>2. Pipeline!Ingest(n)
      BY <1>6, <3>1, <2>2 DEF Pipeline!Report
    <3>3. (PipelineUnread /\ Pipeline!Known(n)) \/ PipelineCounts(n)
      BY <2>2, <3>1, <3>2, PipelineIngestIs
    <3>4. CASE PipelineUnread /\ Pipeline!Known(n)
      <4>1. PICK m \in DOMAIN stored : PipelineSecondOf(m) = PipelineSecondOf(n)
        BY <3>4 DEF Pipeline!Known, PipelineSecondOf
      <4>2. recorded[PipelineSecondOf(n)] = 1
        BY <4>1 DEF PipelineInv, PipelineRowsCounted
      <4> QED BY <1>2, <3>1, <4>2
    <3>5. CASE PipelineCounts(n)
      <4>1. n \in DOMAIN stored'
        BY <3>5 DEF PipelineCounts
      <4>2. PipelineRowsCounted'
        BY PipelineNextKnows
      <4> QED BY <4>1, <4>2 DEF PipelineRowsCounted, PipelineSecondOf
    <3> QED BY <3>3, <3>4, <3>5
  <2> QED BY <1>1, <2>1, <2>2 DEF PipelineCalling, PipelineSecondOf
<1>7. ASSUME NEW kind \in {"boot", "interface", "driver"}, Pipeline!Reset(kind)
      PROVE  PipelineCalling'
  BY <1>3, <1>4, <1>7 DEF Pipeline!Reset, Pipeline!agentVars, Pipeline!callVars
<1>8. CASE Pipeline!Crash \/ Pipeline!GiveUp \/ Pipeline!Receive
  BY <1>4, <1>8 DEF Pipeline!Crash, Pipeline!GiveUp, Pipeline!Receive
<1>9. CASE Pipeline!Tick \/ Pipeline!Configure \/ Pipeline!CollectPaused \/ Pipeline!Fallback
             \/ Pipeline!Purge
  BY <1>3, <1>9
     DEF Pipeline!Tick, Pipeline!Configure, Pipeline!CollectPaused, Pipeline!Fallback,
         Pipeline!Purge, Pipeline!agentVars, Pipeline!callVars
<1>10. ASSUME NEW reached \in BOOLEAN, Pipeline!Start(reached) PROVE PipelineCalling'
  BY <1>3, <1>10 DEF Pipeline!Start, Pipeline!callVars
<1>11. ASSUME NEW bytes \in 0..MaxBytes, NEW same \in BOOLEAN, Pipeline!Collect(bytes, same)
       PROVE  PipelineCalling'
  BY <1>3, <1>11 DEF Pipeline!Collect, Pipeline!callVars
<1>12. ASSUME NEW n \in Pipeline!Numbers, Pipeline!Lose(n) \/ Pipeline!ReportLate(n)
       PROVE  PipelineCalling'
  BY <1>3, <1>12 DEF Pipeline!Lose, Pipeline!ReportLate, Pipeline!agentVars
<1>13. CASE UNCHANGED Pipeline!vars
  BY <1>3, <1>13 DEF Pipeline!vars, Pipeline!agentVars, Pipeline!callVars
<1> QED BY <1>5, <1>6, <1>7, <1>8, <1>9, <1>10, <1>11, <1>12, <1>13 DEF Pipeline!Next

\* What is counted, too old or excused stays so.
LEMMA PipelineGoneStays ==
  ASSUME Pipeline!Assumptions, PipelineInv, [Pipeline!Next]_(Pipeline!vars),
         NEW n \in Pipeline!Taken, excused \subseteq excused'
  PROVE  /\ recorded[PipelineSecondOf(n)] > 0 => recorded'[samples'[n].second] > 0
         /\ Pipeline!Age(n) > Keep => ticks' - samples'[n].at > Keep
         /\ n \in excused => n \in excused'
<1>1. samples[n].at \in Nat /\ ticks \in Nat /\ Keep \in Nat
  BY PipelineSampleTypes DEF PipelineInv, Pipeline!TypeOK, Pipeline!Assumptions
<1>2. samples'[n].at = samples[n].at /\ ticks' \in {ticks, ticks + 1}
  BY PipelineSecondsStay, PipelineSamplesStay
<1> QED BY <1>1, <1>2, PipelineCountsStay DEF Pipeline!Age

LEMMA PipelineNextHolds ==
  ASSUME Pipeline!Assumptions, PipelineInv, [Pipeline!Next]_(Pipeline!vars)
  PROVE  PipelineHeld'
<1> DEFINE Gone(n) == \/ recorded'[samples'[n].second] > 0
                      \/ ticks' - samples'[n].at > Keep
                      \/ n \in excused'
           Has(q, n) == n \in Pipeline!ToSet(q) \/ Gone(n)
<1> SUFFICES \A n \in Pipeline!Taken' : Has(buffer', n) /\ (up' => Has(buffered', n))
  BY DEF PipelineHeld, PipelineHasOrGone, PipelineSecondOf, Pipeline!Age
<1>1. ASSUME excused \subseteq excused', NEW n \in Pipeline!Taken
      PROVE  /\ n \in Pipeline!ToSet(buffer) \/ Gone(n)
             /\ up => n \in Pipeline!ToSet(buffered) \/ Gone(n)
             /\ recorded[PipelineSecondOf(n)] > 0 \/ Pipeline!Age(n) > Keep => Gone(n)
  BY <1>1, PipelineGoneStays DEF PipelineInv, PipelineHeld, PipelineHasOrGone
<1> HIDE DEF Gone
<1>2. UNCHANGED samples => Pipeline!Taken' = Pipeline!Taken
  BY DEF Pipeline!Taken
<1>3. CASE UNCHANGED <<samples, buffer, buffered, excused>> /\ (up' => up)
  BY <1>1, <1>2, <1>3
<1>4. CASE UNCHANGED <<samples, buffer, excused>> /\ ~up'
  BY <1>1, <1>2, <1>4
<1>5. CASE Pipeline!Send
  <2>1. up /\ \A n \in Pipeline!ToSet(buffered) : n \in Pipeline!ToSet(buffered')
          \/ Pipeline!Age(n) > Keep
    BY <1>5, PipelineSendIs
  <2>2. UNCHANGED <<samples, buffer, excused>>
    BY <1>5 DEF Pipeline!Send
  <2> QED BY <1>1, <1>2, <2>1, <2>2
<1>6. ASSUME NEW reached \in BOOLEAN, Pipeline!Start(reached)
      PROVE  \A n \in Pipeline!Taken' : Has(buffer', n) /\ (up' => Has(buffered', n))
  <2>1. /\ excused \subseteq excused'
        /\ \A n \in Pipeline!ToSet(buffer) : n \in Pipeline!ToSet(buffered')
             \/ Pipeline!Age(n) > Window \/ n \in excused'
    BY <1>6, PipelineStartIs
  <2>2. UNCHANGED <<samples, buffer>>
    BY <1>6 DEF Pipeline!Start
  <2>3. ASSUME NEW n \in Pipeline!Taken, Pipeline!Age(n) > Window PROVE Pipeline!Age(n) > Keep
    <3>1. /\ ticks \in Nat /\ samples[n].at \in Nat /\ Keep \in Nat /\ Window \in Nat
          /\ Keep < Window
      BY PipelineSampleTypes DEF PipelineInv, Pipeline!TypeOK, Pipeline!Assumptions
    <3> QED BY <2>3, <3>1 DEF Pipeline!Age
  <2>4. \A n \in Pipeline!Taken : n \in excused' => Gone(n)
    BY DEF Gone
  <2> QED BY <1>1, <1>2, <2>1, <2>2, <2>3, <2>4
<1>7. ASSUME NEW bytes \in 0..MaxBytes, NEW same \in BOOLEAN, Pipeline!Collect(bytes, same)
      PROVE  \A n \in Pipeline!Taken' : Has(buffer', n) /\ (up' => Has(buffered', n))
  <2> DEFINE m == Len(samples) + 1
  <2>1. /\ buffer' = buffered' /\ excused \subseteq excused'
        /\ \A i \in Pipeline!ToSet(buffered) : i \in Pipeline!ToSet(buffered') \/ i \in excused'
        /\ m \in Pipeline!ToSet(buffered') \/ m \in excused'
    BY <1>7, PipelineCollectQueue
  <2>2. \A i \in Pipeline!Taken' : i = m \/ i \in Pipeline!Taken
    BY <1>7, PipelineCollectIs
  <2>3. up
    BY <1>7 DEF Pipeline!Collect
  <2>4. \A n : n \in excused' => Gone(n)
    BY DEF Gone
  <2> HIDE DEF m
  <2> QED BY <1>1, <2>1, <2>2, <2>3, <2>4
<1>8. CASE Pipeline!CollectPaused
  BY <1>1, <1>2, <1>8 DEF Pipeline!CollectPaused
<1>9. CASE Pipeline!Receive
  <2>1. /\ buffer' \in {buffer, buffered'} /\ excused \subseteq excused'
        /\ \A n \in Pipeline!ToSet(buffered) :
             \/ n \in Pipeline!ToSet(buffered') \/ n \in excused'
             \/ answer = "running" /\ n \in sending \ {0}
    BY <1>9, PipelineReceiveIs
  <2>2. UNCHANGED <<samples, up>> /\ up
    BY <1>9 DEF Pipeline!Receive, PipelineInv, PipelineCalling
  <2>3. answer = "running" => \A n \in sending \ {0} : recorded[PipelineSecondOf(n)] > 0
    BY DEF PipelineInv, PipelineCalling
  <2>4. \A n : n \in excused' => Gone(n)
    BY DEF Gone
  <2> QED BY <1>1, <1>2, <2>1, <2>2, <2>3, <2>4
<1>10. ASSUME NEW kind \in {"boot", "interface", "driver"}, Pipeline!Reset(kind)
       PROVE  \A n \in Pipeline!Taken' : Has(buffer', n) /\ (up' => Has(buffered', n))
  BY <1>3, <1>4, <1>10 DEF Pipeline!Reset, Pipeline!agentVars
<1>11. CASE Pipeline!Crash
  BY <1>4, <1>11 DEF Pipeline!Crash
<1>12. CASE Pipeline!Tick \/ Pipeline!Configure \/ Pipeline!Fallback \/ Pipeline!GiveUp
              \/ Pipeline!Report \/ Pipeline!Purge
  BY <1>3, <1>12
     DEF Pipeline!Tick, Pipeline!Configure, Pipeline!Fallback, Pipeline!GiveUp, Pipeline!Report,
         Pipeline!Purge, Pipeline!agentVars
<1>13. ASSUME NEW n \in Pipeline!Numbers, Pipeline!Lose(n) \/ Pipeline!ReportLate(n)
       PROVE  \A i \in Pipeline!Taken' : Has(buffer', i) /\ (up' => Has(buffered', i))
  BY <1>3, <1>13 DEF Pipeline!Lose, Pipeline!ReportLate, Pipeline!agentVars
<1>14. CASE UNCHANGED Pipeline!vars
  BY <1>3, <1>14 DEF Pipeline!vars, Pipeline!agentVars
<1> QED BY <1>5, <1>6, <1>7, <1>8, <1>9, <1>10, <1>11, <1>12, <1>13, <1>14 DEF Pipeline!Next

LEMMA PipelineNextKeeps ==
  ASSUME Pipeline!Assumptions, PipelineInv, [Pipeline!Next]_(Pipeline!vars)
  PROVE  PipelineInv'
BY PipelineNextTyped, PipelineNextOrders, PipelineNextSeconds, PipelineNextKnows,
   PipelineNextTotals, PipelineNextCalls, PipelineNextHolds DEF PipelineInv

\* The two properties of the samples.
LEMMA PipelineInvCounts ==
  ASSUME Pipeline!Assumptions, PipelineInv
  PROVE  Pipeline!CountedOnce /\ Pipeline!SampleKept /\ Pipeline!TrafficCounted
<1>1. Pipeline!CountedOnce
  BY DEF PipelineInv, PipelineKnownOrOld, Pipeline!CountedOnce
<1>2. Pipeline!SampleKept
  BY DEF PipelineInv, PipelineHeld, PipelineHasOrGone, PipelineSecondOf, Pipeline!SampleKept
<1> QED BY <1>1, <1>2 DEF PipelineInv, PipelineTotals

-----------------------------------------------------------------------------
(* The dialogs: Dialogs *)

LEMMA AskingFilters == \A q, S : Asking!Without(q, S) = Without(q, S)
BY DEF Asking!Without, Without

AskingOn(s, m) == \E i \in 1..Len(s) : s[i] = m
AskingOnce(s)  == \A i, j \in 1..Len(s) : s[i] = s[j] => i = j

AskingTyped == Asking!TypeOK

\* Who waits in the queue waits there once, without an answer.
AskingQueueOK ==
  AskingOnce(questions) /\ \A i \in 1..Len(questions) : answers[questions[i]] = "asked"

\* Of the dialogs, that of the first in the queue lies over the page, and no other one.
AskingStackOK ==
  /\ AskingOnce(stack)
  /\ \A a \in Asking!Askers : AskingOn(stack, Asking!Dialog(a)) <=> (questions # <<>>
                                                                     /\ a = questions[1])

AskingPageOK == savedOverflow = "page" /\ overflow = (IF stack = <<>> THEN "page" ELSE "hidden")

AskingInv == AskingTyped /\ AskingQueueOK /\ AskingStackOK /\ AskingPageOK

LEMMA AskingInvTyped == ASSUME AskingInv PROVE Asking!TypeOK
BY DEF AskingInv, AskingTyped

LEMMA AskingInitHolds == ASSUME Asking!Assumptions, Asking!Init PROVE AskingInv
<1>1. Asking!TypeOK
  BY EmptySeq DEF Asking!Assumptions, Asking!Init, Asking!TypeOK
<1> QED BY <1>1
           DEF Asking!Init, AskingInv, AskingTyped, AskingQueueOK, AskingStackOK, AskingPageOK,
               AskingOn, AskingOnce

LEMMA AskingEntered ==
  ASSUME NEW A, NEW s \in Seq(A), AskingOnce(s), NEW enter,
         enter = <<>> \/ (\E m \in A : enter = <<m>> /\ ~AskingOn(s, m))
  PROVE  /\ s \o enter \in Seq(A) /\ AskingOnce(s \o enter)
         /\ \A m : AskingOn(s \o enter, m) <=> AskingOn(s, m) \/ AskingOn(enter, m)
         /\ s \o enter = <<>> <=> s = <<>> /\ enter = <<>>
<1>1. CASE enter = <<>>
  <2>1. s \o enter = s
    BY <1>1, ConcatEmptySeq
  <2>2. \A m : ~AskingOn(enter, m)
    BY <1>1 DEF AskingOn
  <2> QED BY <1>1, <2>1, <2>2
<1>2. ASSUME NEW m \in A, enter = <<m>>, ~AskingOn(s, m)
      PROVE  /\ s \o enter \in Seq(A) /\ AskingOnce(s \o enter)
             /\ \A x : AskingOn(s \o enter, x) <=> AskingOn(s, x) \/ AskingOn(enter, x)
             /\ s \o enter = <<>> <=> s = <<>> /\ enter = <<>>
  <2>1. PICK t : t = s \o enter
    OBVIOUS
  <2>2. Len(s) \in Nat
    BY LenProperties
  <2>3. /\ t \in Seq(A) /\ t # <<>> /\ Len(t) = Len(s) + 1 /\ t[Len(s) + 1] = m
        /\ \A i \in 1..Len(s) : t[i] = s[i]
    BY <1>2, <2>1, AppendIsConcat, AppendProperties
  <2>4. /\ \A i \in 1..(Len(s) + 1) : i \in 1..Len(s) \/ i = Len(s) + 1
        /\ \A i \in 1..Len(s) : i \in 1..(Len(s) + 1)
        /\ Len(s) + 1 \in 1..(Len(s) + 1)
    BY <2>2
  <2>5. \A x : AskingOn(enter, x) <=> x = m
    BY <1>2 DEF AskingOn
  <2>6. \A i \in 1..Len(s) : s[i] # m
    BY <1>2 DEF AskingOn
  <2>7. AskingOnce(t)
    BY <2>3, <2>4, <2>6 DEF AskingOnce
  <2>8. \A x : AskingOn(t, x) <=> AskingOn(s, x) \/ x = m
    BY <2>3, <2>4 DEF AskingOn
  <2>9. enter # <<>>
    BY <1>2
  <2> QED BY <2>1, <2>3, <2>5, <2>7, <2>8, <2>9
<1> QED BY <1>1, <1>2

LEMMA AskingLeftOver ==
  ASSUME NEW A, NEW s \in Seq(A), AskingOnce(s), NEW S
  PROVE  /\ Asking!Without(s, S) \in Seq(A) /\ AskingOnce(Asking!Without(s, S))
         /\ \A m : AskingOn(Asking!Without(s, S), m) <=> AskingOn(s, m) /\ m \notin S
<1>1. LeftOf(A, s, S, Len(s), Asking!Without(s, S))
  BY WithoutIs, AskingFilters
<1>2. PICK r : r = Asking!Without(s, S)
  OBVIOUS
<1>3. /\ r \in Seq(A)
      /\ \A j \in 1..Len(r) : \E i \in 1..Len(s) : r[j] = s[i] /\ s[i] \notin S
      /\ \A i \in 1..Len(s) : s[i] \notin S => \E j \in 1..Len(r) : r[j] = s[i]
      /\ \A i, j \in 1..Len(r) : r[i] = r[j] => i = j
  BY <1>1, <1>2 DEF LeftOf, AskingOnce
<1>4. \A m : AskingOn(r, m) <=> AskingOn(s, m) /\ m \notin S
  BY <1>3 DEF AskingOn
<1> QED BY <1>2, <1>3, <1>4 DEF AskingOnce

\* A sequence is empty if nothing is in it.
LEMMA AskingNothingOn ==
  ASSUME NEW A, NEW s \in Seq(A), \A m \in A : ~AskingOn(s, m)
  PROVE  s = <<>>
<1>1. Len(s) \in Nat
  BY LenProperties
<1>2. CASE Len(s) # 0
  <2>1. 1 \in 1..Len(s) /\ s[1] \in A
    BY <1>1, <1>2, ElementOfSeq
  <2> QED BY <2>1 DEF AskingOn
<1>3. CASE Len(s) = 0
  BY <1>3, EmptySeq
<1> QED BY <1>2, <1>3

LEMMA AskingFirstOf ==
  ASSUME NEW A, NEW s \in Seq(A), s # <<>>
  PROVE  Len(s) \in Nat /\ 1 \in 1..Len(s) /\ s[1] \in A /\ Head(s) = s[1]
<1>1. Len(s) \in Nat \ {0}
  BY EmptySeq
<1> QED BY <1>1, ElementOfSeq

LEMMA AskingCommitted ==
  ASSUME AskingTyped, AskingOnce(stack), AskingPageOK, NEW leave, NEW enter,
         Asking!Commit(leave, enter),
         enter = <<>> \/ (\E m \in Asking!Modals : enter = <<m>>
                          /\ (AskingOn(stack, m) => m \in leave))
  PROVE  /\ stack' \in Seq(Asking!Modals) /\ AskingOnce(stack')
         /\ \A m : AskingOn(stack', m) <=> (AskingOn(stack, m) /\ m \notin leave)
              \/ AskingOn(enter, m)
         /\ AskingPageOK' /\ phase' \in [Asking!Modals -> {"open", "pending", "closing"}]
<1>1. PICK left : left = Asking!Without(stack, leave)
  OBVIOUS
<1>2. /\ left \in Seq(Asking!Modals) /\ AskingOnce(left)
      /\ \A m : AskingOn(left, m) <=> AskingOn(stack, m) /\ m \notin leave
  BY <1>1, AskingLeftOver DEF AskingTyped, Asking!TypeOK
<1>3. stack' = left \o enter
  BY <1>1 DEF Asking!Commit
<1>4. enter = <<>> \/ (\E m \in Asking!Modals : enter = <<m>> /\ ~AskingOn(left, m))
  BY <1>2
<1>5. /\ stack' \in Seq(Asking!Modals) /\ AskingOnce(stack')
      /\ \A m : AskingOn(stack', m) <=> AskingOn(left, m) \/ AskingOn(enter, m)
      /\ stack' = <<>> <=> left = <<>> /\ enter = <<>>
  BY <1>2, <1>3, <1>4, AskingEntered
<1>6. stack = <<>> => left = <<>>
  <2> SUFFICES ASSUME stack = <<>> PROVE left = <<>>
    OBVIOUS
  <2>1. \A m : ~AskingOn(left, m)
    BY <1>2 DEF AskingOn
  <2> QED BY <1>2, <2>1, AskingNothingOn
<1>7. PICK restored : restored = IF stack # <<>> /\ left = <<>> THEN savedOverflow ELSE overflow
  OBVIOUS
<1>8. /\ savedOverflow' = (IF left = <<>> /\ enter # <<>> THEN restored ELSE savedOverflow)
      /\ overflow' = (IF enter # <<>> THEN "hidden" ELSE restored)
  BY <1>1, <1>7 DEF Asking!Commit
<1>9. restored = IF left = <<>> THEN "page" ELSE "hidden"
  BY <1>6, <1>7 DEF AskingPageOK
<1>10. savedOverflow' = "page"
  BY <1>8, <1>9 DEF AskingPageOK
<1>11. overflow' = (IF stack' = <<>> THEN "page" ELSE "hidden")
  BY <1>5, <1>8, <1>9
<1>12. phase' \in [Asking!Modals -> {"open", "pending", "closing"}]
  BY DEF Asking!Commit, AskingTyped, Asking!TypeOK
<1> QED BY <1>2, <1>5, <1>10, <1>11, <1>12 DEF AskingPageOK

\* The effect of a commit on the types.
LEMMA AskingRetyped ==
  ASSUME Asking!TypeOK, AskingPageOK', stack' \in Seq(Asking!Modals),
         questions' \in Seq(Asking!Askers),
         phase' \in [Asking!Modals -> {"open", "pending", "closing"}],
         answers' \in [Asking!Askers -> {"none", "asked", "confirmed", "refused"}],
         after' \in [Asking!Askers -> {"confirmed", "refused"}], dirty' \subseteq Editors,
         typed' \in 0..MaxEdits, logoffs' \in 0..MaxExpiries
  PROVE  Asking!TypeOK'
BY DEF Asking!TypeOK, AskingPageOK

LEMMA AskingKinds ==
  /\ \A a, b : Asking!Dialog(a) = Asking!Dialog(b) => a = b
  /\ \A a, w : Asking!Dialog(a) # Asking!EditorModal(w)
  /\ \A a \in Asking!Askers : Asking!Dialog(a) \in Asking!Modals
  /\ \A w \in Editors : Asking!EditorModal(w) \in Asking!Modals
  /\ Editors \subseteq Asking!Askers /\ Questions \subseteq Asking!Askers
BY DEF Asking!Dialog, Asking!EditorModal, Asking!Modals, Asking!Askers

\* Who asks goes to the end of the queue.
LEMMA AskingAskedLast ==
  ASSUME AskingInv, NEW a \in Asking!Askers, answers[a] = "none", Asking!Asked(a)
  PROVE  /\ questions' \in Seq(Asking!Askers) /\ questions' # <<>> /\ AskingQueueOK'
         /\ answers' \in [Asking!Askers -> {"none", "asked", "confirmed", "refused"}]
         /\ questions'[1] = (IF questions = <<>> THEN a ELSE questions[1])
         /\ Asking!Shown(questions') = <<Asking!Dialog(questions'[1])>>
<1>1. questions \in Seq(Asking!Askers) /\ Len(questions) \in Nat
  BY LenProperties DEF AskingInv, AskingTyped, Asking!TypeOK
<1>2. questions' = questions \o <<a>> /\ questions' = Append(questions, a)
  BY <1>1, AppendIsConcat DEF Asking!Asked
<1>3. \A i \in 1..Len(questions) : questions[i] # a
  BY DEF AskingInv, AskingQueueOK
<1>4. questions' \in Seq(Asking!Askers) /\ AskingOnce(questions')
  <2>1. ~AskingOn(questions, a)
    BY <1>3 DEF AskingOn
  <2> QED BY <1>1, <1>2, <2>1, AskingEntered DEF AskingInv, AskingQueueOK
<1>5. /\ Len(questions') = Len(questions) + 1 /\ questions'[Len(questions) + 1] = a
      /\ questions' # <<>>
      /\ \A i \in 1..Len(questions) : questions'[i] = questions[i]
  BY <1>1, <1>2, AppendProperties
<1>6. answers' = [answers EXCEPT ![a] = "asked"]
  BY DEF Asking!Asked
<1>7. \A i \in 1..Len(questions') : answers'[questions'[i]] = "asked"
  <2>1. \A i \in 1..Len(questions') : i \in 1..Len(questions) \/ i = Len(questions) + 1
    BY <1>1, <1>5
  <2>2. \A i \in 1..Len(questions) : questions[i] \in Asking!Askers
    BY <1>1, ElementOfSeq
  <2> QED BY <1>5, <1>6, <2>1, <2>2 DEF AskingInv, AskingTyped, Asking!TypeOK, AskingQueueOK
<1>8. questions'[1] = (IF questions = <<>> THEN a ELSE questions[1])
  <2>1. CASE questions = <<>>
    BY <1>5, <2>1
  <2>2. CASE questions # <<>>
    BY <1>1, <1>5, <2>2, AskingFirstOf
  <2> QED BY <2>1, <2>2
<1>9. Head(questions') = questions'[1]
  BY <1>4, <1>5, AskingFirstOf
<1>10. answers' \in [Asking!Askers -> {"none", "asked", "confirmed", "refused"}]
  BY <1>6 DEF AskingInv, AskingTyped, Asking!TypeOK
<1> QED BY <1>4, <1>5, <1>7, <1>8, <1>9, <1>10 DEF AskingQueueOK, Asking!Shown

LEMMA AskingAskKeeps ==
  ASSUME Asking!Assumptions, AskingInv, NEW q \in Questions, Asking!Ask(q)
  PROVE  AskingInv'
<1>1. q \in Asking!Askers /\ answers[q] = "none" /\ Asking!Asked(q)
  BY AskingKinds DEF Asking!Ask
<1>2. /\ questions' \in Seq(Asking!Askers) /\ questions' # <<>> /\ AskingQueueOK'
      /\ answers' \in [Asking!Askers -> {"none", "asked", "confirmed", "refused"}]
      /\ questions'[1] = (IF questions = <<>> THEN q ELSE questions[1])
      /\ Asking!Shown(questions') = <<Asking!Dialog(questions'[1])>>
  BY <1>1, AskingAskedLast
<1>3. PICK enter : enter = IF questions = <<>> THEN <<Asking!Dialog(q)>> ELSE <<>>
  OBVIOUS
<1>4. Asking!Commit({}, enter)
  BY <1>2, <1>3 DEF Asking!Ask
<1>5. enter = <<>> \/ (\E m \in Asking!Modals : enter = <<m>>
                       /\ (AskingOn(stack, m) => m \in {}))
  BY <1>1, <1>3, AskingKinds DEF AskingInv, AskingStackOK
<1>6. /\ stack' \in Seq(Asking!Modals) /\ AskingOnce(stack')
      /\ \A m : AskingOn(stack', m) <=> AskingOn(stack, m) \/ AskingOn(enter, m)
      /\ AskingPageOK' /\ phase' \in [Asking!Modals -> {"open", "pending", "closing"}]
  BY <1>4, <1>5, AskingCommitted DEF AskingInv, AskingStackOK
<1>7. \A a \in Asking!Askers : AskingOn(enter, Asking!Dialog(a)) <=> questions = <<>> /\ a = q
  BY <1>3, AskingKinds DEF AskingOn
<1>8. AskingStackOK'
  BY <1>2, <1>6, <1>7 DEF AskingInv, AskingStackOK
<1>9. Asking!TypeOK'
  BY <1>2, <1>6, AskingRetyped DEF AskingInv, AskingTyped, Asking!TypeOK, Asking!Ask
<1> QED BY <1>2, <1>6, <1>8, <1>9 DEF AskingInv, AskingTyped

LEMMA AskingOpenKeeps ==
  ASSUME Asking!Assumptions, AskingInv, NEW w \in Editors, Asking!Open(w)
  PROVE  AskingInv'
<1>1. ~AskingOn(stack, Asking!EditorModal(w))
  BY LenProperties
     DEF AskingInv, AskingTyped, Asking!TypeOK, Asking!Open, Asking!Range, AskingOn
<1>2. /\ Asking!Commit({}, <<Asking!EditorModal(w)>>)
      /\ UNCHANGED <<questions, answers, after, dirty, typed, logoffs>>
  BY DEF Asking!Open
<1>3. /\ stack' \in Seq(Asking!Modals) /\ AskingOnce(stack')
      /\ \A m : AskingOn(stack', m) <=> AskingOn(stack, m)
           \/ AskingOn(<<Asking!EditorModal(w)>>, m)
      /\ AskingPageOK' /\ phase' \in [Asking!Modals -> {"open", "pending", "closing"}]
  <2>1. \E m \in Asking!Modals : <<Asking!EditorModal(w)>> = <<m>>
          /\ (AskingOn(stack, m) => m \in {})
    BY <1>1, AskingKinds
  <2> QED BY <1>2, <2>1, AskingCommitted DEF AskingInv, AskingStackOK
<1>4. \A a \in Asking!Askers : ~AskingOn(<<Asking!EditorModal(w)>>, Asking!Dialog(a))
  BY AskingKinds DEF AskingOn
<1>5. AskingStackOK' /\ AskingQueueOK'
  BY <1>2, <1>3, <1>4 DEF AskingInv, AskingStackOK, AskingQueueOK
<1>6. Asking!TypeOK'
  BY <1>2, <1>3, AskingRetyped DEF AskingInv, AskingTyped, Asking!TypeOK
<1> QED BY <1>3, <1>5, <1>6 DEF AskingInv, AskingTyped

LEMMA AskingEditKeeps ==
  ASSUME Asking!Assumptions, AskingInv, NEW w \in Editors, Asking!Edit(w) \/ Asking!Save(w)
           \/ Asking!CloseWindow(w) PROVE AskingInv'
<1>1. UNCHANGED <<questions, answers, stack, overflow, savedOverflow>>
  BY DEF Asking!Edit, Asking!Save, Asking!CloseWindow
<1>2. Asking!TypeOK'
  BY DEF Asking!Assumptions, AskingInv, AskingTyped, Asking!TypeOK, Asking!Edit, Asking!Save,
         Asking!CloseWindow
<1> QED BY <1>1, <1>2 DEF AskingInv, AskingTyped, AskingQueueOK, AskingStackOK, AskingPageOK

LEMMA AskingCloseKeeps ==
  ASSUME Asking!Assumptions, AskingInv, NEW a \in Asking!Askers,
         NEW v \in {"confirmed", "refused"}, Asking!CloseDialog(a, v)
  PROVE  AskingInv'
<1>1. UNCHANGED <<questions, answers, stack, overflow, savedOverflow>>
  BY DEF Asking!CloseDialog
<1>2. Asking!TypeOK'
  BY DEF Asking!Assumptions, AskingInv, AskingTyped, Asking!TypeOK, Asking!CloseDialog
<1> QED BY <1>1, <1>2 DEF AskingInv, AskingTyped, AskingQueueOK, AskingStackOK, AskingPageOK

LEMMA AskingAskToDropKeeps ==
  ASSUME Asking!Assumptions, AskingInv, NEW w \in Editors, Asking!AskToDrop(w)
  PROVE  AskingInv'
<1>1. w \in Asking!Askers /\ answers[w] = "none" /\ Asking!Asked(w) /\ stack # <<>>
  BY AskingKinds DEF Asking!AskToDrop, Asking!Top
<1>2. /\ questions' \in Seq(Asking!Askers) /\ questions' # <<>> /\ AskingQueueOK'
      /\ answers' \in [Asking!Askers -> {"none", "asked", "confirmed", "refused"}]
      /\ questions'[1] = (IF questions = <<>> THEN w ELSE questions[1])
      /\ Asking!Shown(questions') = <<Asking!Dialog(questions'[1])>>
  BY <1>1, AskingAskedLast
<1>3. PICK enter : enter = IF questions = <<>> THEN <<Asking!Dialog(w)>> ELSE <<>>
  OBVIOUS
<1>4. stack' = stack \o enter
  BY <1>2, <1>3 DEF Asking!AskToDrop
<1>5. enter = <<>> \/ (\E m \in Asking!Modals : enter = <<m>> /\ ~AskingOn(stack, m))
  BY <1>1, <1>3, AskingKinds DEF AskingInv, AskingStackOK
<1>6. /\ stack' \in Seq(Asking!Modals) /\ AskingOnce(stack')
      /\ \A m : AskingOn(stack', m) <=> AskingOn(stack, m) \/ AskingOn(enter, m)
      /\ stack' = <<>> <=> stack = <<>> /\ enter = <<>>
  BY <1>4, <1>5, AskingEntered DEF AskingInv, AskingTyped, Asking!TypeOK, AskingStackOK
<1>7. AskingPageOK'
  BY <1>1, <1>6 DEF AskingInv, AskingPageOK, Asking!AskToDrop
<1>8. \A a \in Asking!Askers : AskingOn(enter, Asking!Dialog(a)) <=> questions = <<>> /\ a = w
  BY <1>3, AskingKinds DEF AskingOn
<1>9. AskingStackOK'
  BY <1>2, <1>6, <1>8 DEF AskingInv, AskingStackOK
<1>10. phase' \in [Asking!Modals -> {"open", "pending", "closing"}]
  BY DEF AskingInv, AskingTyped, Asking!TypeOK, Asking!AskToDrop
<1>11. Asking!TypeOK'
  BY <1>2, <1>6, <1>7, <1>10, AskingRetyped
     DEF AskingInv, AskingTyped, Asking!TypeOK, Asking!AskToDrop
<1> QED BY <1>2, <1>7, <1>9, <1>11 DEF AskingInv, AskingTyped

LEMMA AskingDroppedKeeps ==
  ASSUME Asking!Assumptions, AskingInv, NEW w \in Editors, Asking!Dropped(w)
  PROVE  AskingInv'
<1>1. /\ w \in Asking!Askers /\ answers[w] # "asked"
      /\ answers' = [answers EXCEPT ![w] = "none"]
      /\ UNCHANGED <<questions, stack, overflow, savedOverflow>>
  BY AskingKinds DEF Asking!Dropped
<1>2. Asking!TypeOK'
  BY <1>1 DEF AskingInv, AskingTyped, Asking!TypeOK, Asking!Dropped
<1>3. AskingQueueOK'
  <2>1. \A i \in 1..Len(questions) : questions[i] \in Asking!Askers /\ questions[i] # w
    BY <1>1, ElementOfSeq DEF AskingInv, AskingTyped, Asking!TypeOK, AskingQueueOK
  <2> QED BY <1>1, <2>1 DEF AskingInv, AskingTyped, Asking!TypeOK, AskingQueueOK
<1> QED BY <1>1, <1>2, <1>3 DEF AskingInv, AskingTyped, AskingStackOK, AskingPageOK

LEMMA AskingDialogGoneKeeps ==
  ASSUME Asking!Assumptions, AskingInv, NEW a \in Asking!Askers, Asking!DialogGone(a)
  PROVE  AskingInv'
<1>1. AskingOn(stack, Asking!Dialog(a))
  BY LenProperties
     DEF AskingInv, AskingTyped, Asking!TypeOK, Asking!DialogGone, Asking!Range, AskingOn
<1>2. /\ questions' = Asking!Without(questions, {a})
      /\ answers' = [answers EXCEPT ![a] = after[a]]
      /\ Asking!Commit({Asking!Dialog(a)}, Asking!Shown(questions'))
      /\ after' = [after EXCEPT ![a] = "refused"]
      /\ UNCHANGED <<dirty, typed, logoffs>>
  BY DEF Asking!DialogGone
<1>3. /\ questions # <<>> /\ a = questions[1]
      /\ \A b \in Asking!Askers : AskingOn(stack, Asking!Dialog(b)) => b = a
  BY <1>1 DEF AskingInv, AskingStackOK
<1>4. questions' \in Seq(Asking!Askers) /\ AskingOnce(questions')
        /\ \A b : AskingOn(questions', b) <=> AskingOn(questions, b) /\ b \notin {a}
  BY <1>2, AskingLeftOver DEF AskingInv, AskingTyped, Asking!TypeOK, AskingQueueOK
<1>5. AskingQueueOK'
  <2>1. ASSUME NEW i \in 1..Len(questions') PROVE answers'[questions'[i]] = "asked"
    <3>1. AskingOn(questions', questions'[i]) /\ questions'[i] \in Asking!Askers
      BY <1>4, ElementOfSeq DEF AskingOn
    <3>2. PICK j \in 1..Len(questions) : questions[j] = questions'[i] /\ questions'[i] # a
      BY <1>4, <3>1 DEF AskingOn
    <3> QED BY <1>2, <3>1, <3>2 DEF AskingInv, AskingTyped, Asking!TypeOK, AskingQueueOK
  <2> QED BY <1>4, <2>1 DEF AskingQueueOK
<1>6. PICK enter : enter = Asking!Shown(questions')
  OBVIOUS
<1>7. CASE questions' = <<>>
  <2>1. enter = <<>> /\ \A m : ~AskingOn(enter, m)
    BY <1>6, <1>7 DEF Asking!Shown, AskingOn
  <2>2. /\ stack' \in Seq(Asking!Modals) /\ AskingOnce(stack')
        /\ \A m : AskingOn(stack', m) <=> (AskingOn(stack, m) /\ m \notin {Asking!Dialog(a)})
             \/ AskingOn(enter, m)
        /\ AskingPageOK' /\ phase' \in [Asking!Modals -> {"open", "pending", "closing"}]
    BY <1>2, <1>6, <2>1, AskingCommitted DEF AskingInv, AskingStackOK
  <2>3. AskingStackOK'
    BY <1>3, <1>7, <2>1, <2>2 DEF AskingStackOK
  <2>4. Asking!TypeOK'
    BY <1>2, <1>4, <2>2, AskingRetyped DEF AskingInv, AskingTyped, Asking!TypeOK
  <2> QED BY <1>5, <2>2, <2>3, <2>4 DEF AskingInv, AskingTyped
<1>8. CASE questions' # <<>>
  <2>1. PICK h \in Asking!Askers : h = questions'[1] /\ h = Head(questions')
    BY <1>4, <1>8, AskingFirstOf
  <2>2. h # a
    <3>1. AskingOn(questions', h)
      BY <1>4, <1>8, <2>1, AskingFirstOf DEF AskingOn
    <3> QED BY <1>4, <3>1
  <2>3. enter = <<Asking!Dialog(h)>> /\ \A m : AskingOn(enter, m) <=> m = Asking!Dialog(h)
    BY <1>6, <1>8, <2>1 DEF Asking!Shown, AskingOn
  <2>4. \E m \in Asking!Modals : enter = <<m>>
          /\ (AskingOn(stack, m) => m \in {Asking!Dialog(a)})
    BY <1>3, <2>2, <2>3, AskingKinds
  <2>5. /\ stack' \in Seq(Asking!Modals) /\ AskingOnce(stack')
        /\ \A m : AskingOn(stack', m) <=> (AskingOn(stack, m) /\ m \notin {Asking!Dialog(a)})
             \/ AskingOn(enter, m)
        /\ AskingPageOK' /\ phase' \in [Asking!Modals -> {"open", "pending", "closing"}]
    BY <1>2, <1>6, <2>4, AskingCommitted DEF AskingInv, AskingStackOK
  <2>6. AskingStackOK'
    <3>1. \A b \in Asking!Askers : AskingOn(stack', Asking!Dialog(b)) <=> b = h
      BY <1>3, <2>2, <2>3, <2>5, AskingKinds
    <3> QED BY <1>8, <2>1, <2>5, <3>1 DEF AskingStackOK
  <2>7. Asking!TypeOK'
    BY <1>2, <1>4, <2>5, AskingRetyped DEF AskingInv, AskingTyped, Asking!TypeOK
  <2> QED BY <1>5, <2>5, <2>6, <2>7 DEF AskingInv, AskingTyped
<1> QED BY <1>7, <1>8

LEMMA AskingWindowGoneKeeps ==
  ASSUME Asking!Assumptions, AskingInv, NEW w \in Editors, Asking!WindowGone(w)
  PROVE  AskingInv'
<1>1. /\ Asking!Commit({Asking!EditorModal(w)}, <<>>) /\ dirty' = dirty \ {w}
      /\ UNCHANGED <<questions, answers, after, typed, logoffs>>
  BY DEF Asking!WindowGone
<1>2. /\ stack' \in Seq(Asking!Modals) /\ AskingOnce(stack')
      /\ \A m : AskingOn(stack', m) <=> (AskingOn(stack, m)
                                         /\ m \notin {Asking!EditorModal(w)})
                                              \/ AskingOn(<<>>, m)
      /\ AskingPageOK' /\ phase' \in [Asking!Modals -> {"open", "pending", "closing"}]
  BY <1>1, AskingCommitted DEF AskingInv, AskingStackOK
<1>3. \A a \in Asking!Askers : AskingOn(stack', Asking!Dialog(a)) <=> AskingOn(stack,
                                                                               Asking!Dialog(a))
  <2>1. \A m : ~AskingOn(<<>>, m)
    BY DEF AskingOn
  <2> QED BY <1>2, <2>1, AskingKinds
<1>4. AskingStackOK' /\ AskingQueueOK'
  BY <1>1, <1>2, <1>3 DEF AskingInv, AskingStackOK, AskingQueueOK
<1>5. Asking!TypeOK'
  BY <1>1, <1>2, AskingRetyped DEF AskingInv, AskingTyped, Asking!TypeOK
<1> QED BY <1>2, <1>4, <1>5 DEF AskingInv, AskingTyped

LEMMA AskingExpireKeeps == ASSUME Asking!Assumptions, AskingInv, Asking!Expire PROVE AskingInv'
<1>1. /\ questions' = <<>> /\ Asking!Commit(Asking!Modals, <<>>) /\ dirty' = {}
      /\ typed' = typed
      /\ after' = [a \in Asking!Askers |-> "refused"] /\ logoffs' \in 0..MaxExpiries
      /\ answers' \in [Asking!Askers -> {"none", "asked", "confirmed", "refused"}]
  BY DEF Asking!Assumptions, AskingInv, AskingTyped, Asking!TypeOK, Asking!Expire
<1>2. /\ stack' \in Seq(Asking!Modals) /\ AskingOnce(stack')
      /\ \A m : AskingOn(stack', m) <=> (AskingOn(stack, m) /\ m \notin Asking!Modals)
           \/ AskingOn(<<>>, m)
      /\ AskingPageOK' /\ phase' \in [Asking!Modals -> {"open", "pending", "closing"}]
  BY <1>1, AskingCommitted DEF AskingInv, AskingStackOK
<1>3. \A a \in Asking!Askers : ~AskingOn(stack', Asking!Dialog(a))
  BY <1>2, AskingKinds DEF AskingOn
<1>4. AskingStackOK' /\ AskingQueueOK'
  BY <1>1, <1>2, <1>3 DEF AskingStackOK, AskingQueueOK, AskingOnce
<1>5. Asking!TypeOK'
  <2>1. questions' \in Seq(Asking!Askers) /\ typed' \in 0..MaxEdits
    BY <1>1 DEF AskingInv, AskingTyped, Asking!TypeOK
  <2>2. after' \in [Asking!Askers -> {"confirmed", "refused"}] /\ dirty' \subseteq Editors
    BY <1>1
  <2> QED BY <1>1, <1>2, <2>1, <2>2, AskingRetyped DEF AskingInv, AskingTyped
<1> QED BY <1>2, <1>4, <1>5 DEF AskingInv, AskingTyped

LEMMA AskingNextKeeps ==
  ASSUME Asking!Assumptions, AskingInv, [Asking!Next]_(Asking!vars)
  PROVE  AskingInv'
<1>1. ASSUME NEW q \in Questions, Asking!Ask(q) PROVE AskingInv'
  BY <1>1, AskingAskKeeps
<1>2. ASSUME NEW w \in Editors, Asking!Open(w) PROVE AskingInv'
  BY <1>2, AskingOpenKeeps
<1>3. ASSUME NEW w \in Editors, Asking!Edit(w) \/ Asking!Save(w) \/ Asking!CloseWindow(w)
      PROVE  AskingInv'
  BY <1>3, AskingEditKeeps
<1>4. ASSUME NEW w \in Editors, Asking!AskToDrop(w) PROVE AskingInv'
  BY <1>4, AskingAskToDropKeeps
<1>5. ASSUME NEW w \in Editors, Asking!Dropped(w) PROVE AskingInv'
  BY <1>5, AskingDroppedKeeps
<1>6. ASSUME NEW w \in Editors, Asking!WindowGone(w) PROVE AskingInv'
  BY <1>6, AskingWindowGoneKeeps
<1>7. ASSUME NEW a \in Asking!Askers, Asking!DialogGone(a) PROVE AskingInv'
  BY <1>7, AskingDialogGoneKeeps
<1>8. ASSUME NEW a \in Asking!Askers, NEW v \in {"confirmed", "refused"},
             Asking!CloseDialog(a, v) PROVE AskingInv'
  BY <1>8, AskingCloseKeeps
<1>9. CASE Asking!Expire
  BY <1>9, AskingExpireKeeps
<1>10. CASE UNCHANGED Asking!vars
  BY <1>10
     DEF Asking!vars, AskingInv, AskingTyped, Asking!TypeOK, AskingQueueOK, AskingStackOK,
         AskingPageOK
<1> QED BY <1>1, <1>2, <1>3, <1>4, <1>5, <1>6, <1>7, <1>8, <1>9, <1>10 DEF Asking!Next

\* What the invariant says of the dialogs on the stack, in the words of the property.
LEMMA AskingInvShows == ASSUME AskingInv PROVE Asking!FirstIsShown
<1> DEFINE editors == {Asking!EditorModal(w) : w \in Editors}
<1>1. PICK s : s = Asking!Without(stack, editors)
  OBVIOUS
<1>2. s \in Seq(Asking!Modals) /\ AskingOnce(s) /\ \A m : AskingOn(s, m) <=> AskingOn(stack, m)
        /\ m \notin editors
  BY <1>1, AskingLeftOver DEF AskingInv, AskingTyped, Asking!TypeOK, AskingStackOK
<1>3. \A m \in Asking!Modals : m \notin editors => \E a \in Asking!Askers : m = Asking!Dialog(a)
  BY DEF Asking!Modals
<1>4. \A a \in Asking!Askers : Asking!Dialog(a) \notin editors
  BY AskingKinds
<1> HIDE DEF editors
<1>5. s = Asking!Shown(questions)
  <2>1. CASE questions = <<>>
    <3>1. \A m \in Asking!Modals : ~AskingOn(s, m)
      BY <1>2, <1>3, <2>1 DEF AskingInv, AskingStackOK
    <3> QED BY <1>2, <2>1, <3>1, AskingNothingOn DEF Asking!Shown
  <2>2. CASE questions # <<>>
    <3>1. PICK h \in Asking!Askers : h = questions[1] /\ h = Head(questions)
      BY <2>2, AskingFirstOf DEF AskingInv, AskingTyped, Asking!TypeOK
    <3>2. \A m \in Asking!Modals : AskingOn(s, m) <=> m = Asking!Dialog(h)
      BY <1>2, <1>3, <1>4, <2>2, <3>1 DEF AskingInv, AskingStackOK
    <3>3. AskingOn(s, Asking!Dialog(h)) /\ Asking!Dialog(h) \in Asking!Modals
      BY <3>2, AskingKinds
    <3>4. Len(s) \in Nat /\ \A i \in 1..Len(s) : s[i] \in Asking!Modals /\ AskingOn(s, s[i])
      BY <1>2, LenProperties, ElementOfSeq DEF AskingOn
    <3>5. \A i \in 1..Len(s) : s[i] = Asking!Dialog(h)
      BY <3>2, <3>4
    <3>6. Len(s) = 1
      <4>1. \A i, j \in 1..Len(s) : i = j
        BY <1>2, <3>5 DEF AskingOnce
      <4>2. Len(s) # 0
        BY <3>3, <3>4 DEF AskingOn
      <4>3. 1 \in 1..Len(s) /\ Len(s) \in 1..Len(s)
        BY <3>4, <4>2
      <4> QED BY <4>1, <4>3
    <3>7. s = <<Asking!Dialog(h)>>
      <4>1. /\ <<Asking!Dialog(h)>> \in Seq(Asking!Modals) /\ Len(<<Asking!Dialog(h)>>) = 1
            /\ <<Asking!Dialog(h)>>[1] = Asking!Dialog(h)
        BY <3>3
      <4>2. \A i \in 1..Len(s) : s[i] = <<Asking!Dialog(h)>>[i]
        BY <3>5, <3>6, <4>1
      <4> QED BY <1>2, <3>6, <4>1, <4>2, SeqEqual
    <3> QED BY <2>2, <3>1, <3>7 DEF Asking!Shown
  <2> QED BY <2>1, <2>2
<1>6. Asking!IsInjective(stack)
  BY LenProperties
     DEF AskingInv, AskingStackOK, AskingOnce, AskingTyped, Asking!TypeOK, Asking!IsInjective
<1> QED BY <1>1, <1>5, <1>6 DEF Asking!FirstIsShown, AskingInv, AskingPageOK, editors

-----------------------------------------------------------------------------
(* The theorems *)

\* What an alert rests on has been observed without interruption since the time the state
\* names, and its messages alternate (transitionAlert, evaluateHostAlerts).
THEOREM AlertsInvariant == ServerSpec => []AlertsInv
<1>1. ServerInit => AlertsInv
  BY ServerAssumption, AlertsInitHolds DEF ServerInit
<1>2. AlertsInv /\ [ServerNext]_serverVars => AlertsInv'
  <2>1. [ServerNext]_serverVars => [Alerts!Next]_(Alerts!vars)
    BY DEF ServerNext, serverVars, alertsVars, Alerts!vars
  <2> QED BY <2>1, ServerAssumption, AlertsNextKeeps
<1> QED BY <1>1, <1>2, PTL DEF ServerSpec

\* What the worker has read is pending, and the receiver has an event at most once more than an
\* answer has been lost (deliverPendingAlerts).
THEOREM DeliveriesInvariant == ServerSpec => []DeliveriesInv
<1>1. ServerInit => DeliveriesInv
  BY ServerAssumption, DeliveriesInitHolds DEF ServerInit
<1>2. DeliveriesInv /\ [ServerNext]_serverVars => DeliveriesInv'
  <2>1. [ServerNext]_serverVars => [Deliveries!Next]_(Deliveries!vars)
    BY DEF ServerNext, serverVars, deliveriesVars, Deliveries!vars
  <2> QED BY <2>1, ServerAssumption, DeliveriesNextKeeps
<1> QED BY <1>1, <1>2, PTL DEF ServerSpec

\* The samples that are stored, the state of the traffic and what the agent still holds belong
\* together (ingestSample, advanceTraffic, agentReport, Run).
THEOREM PipelineInvariant == ServerSpec => []PipelineInv
<1>1. ServerInit => PipelineInv
  BY ServerAssumption, PipelineInitHolds DEF ServerInit
<1>2. PipelineInv /\ [ServerNext]_serverVars => PipelineInv'
  <2>1. [ServerNext]_serverVars => [Pipeline!Next]_(Pipeline!vars)
    BY DEF ServerNext, serverVars, pipelineVars, Pipeline!vars, Pipeline!hostVars,
           Pipeline!agentVars, Pipeline!callVars, Pipeline!serverVars
  <2> QED BY <2>1, ServerAssumption, PipelineNextKeeps
<1> QED BY <1>1, <1>2, PTL DEF ServerSpec

\* Of the dialogs exactly that of the first in the queue lies over the page (Dialogs, Modal).
THEOREM AskingInvariant == ServerSpec => []AskingInv
<1>1. ServerInit => AskingInv
  BY ServerAssumption, AskingInitHolds DEF ServerInit
<1>2. AskingInv /\ [ServerNext]_serverVars => AskingInv'
  <2>1. [ServerNext]_serverVars => [Asking!Next]_(Asking!vars)
    BY DEF ServerNext, serverVars, askingVars, Asking!vars
  <2> QED BY <2>1, ServerAssumption, AskingNextKeeps
<1> QED BY <1>1, <1>2, PTL DEF ServerSpec

\* However evaluations come late, values are missing, alerts muted and agents silent: an alert
\* and its end rest on observations without a gap that are as long as the rule asks
\* (transitionAlert).
THEOREM AlertsAreSustained == ServerSpec => Sustained
<1> DEFINE Holds ==
      \A k \in Alerts!Keys : Len(raised'[k]) > Len(raised[k]) =>
        IF Alerts!Last(raised'[k]).kind = "trigger"
        THEN Alerts!SeenFor(k, "high", Alerts!HoldOf(k))'
        ELSE Alerts!SeenFor(k, "low", Recovery)'
<1>1. AlertsInv /\ [ServerNext]_serverVars => [Holds]_(Alerts!vars)
  <2>1. [ServerNext]_serverVars => [Alerts!Next]_(Alerts!vars)
    BY DEF ServerNext, serverVars, alertsVars, Alerts!vars
  <2>2. ASSUME AlertsInv, Alerts!Next, NEW k \in Alerts!Keys, Len(raised'[k]) > Len(raised[k])
        PROVE  IF Alerts!Last(raised'[k]).kind = "trigger"
               THEN Alerts!SeenFor(k, "high", Alerts!HoldOf(k))'
               ELSE Alerts!SeenFor(k, "low", Recovery)'
    BY <2>2, ServerAssumption, AlertsNextSustains
  <2> QED BY <2>1, <2>2
<1>2. ServerSpec => [][Holds]_(Alerts!vars)
  BY <1>1, AlertsInvariant, PTL DEF ServerSpec
<1> QED BY <1>2 DEF Sustained, Alerts!Sustained

\* The owner is told of an alert and of its end in turn, and of the next alert when the cooldown
\* is over; an alert lasts until its recovery (transitionAlert, evaluateHostAlerts).  The alert
\* of a mount may be forgotten with its state: the run AlertEngineMount.
THEOREM AlertsTellTruly == Mounts = {} => (ServerSpec => []AlertsTell)
<1> SUFFICES ASSUME Mounts = {} PROVE ServerSpec => []AlertsTell
  OBVIOUS
<1>1. AlertsInv => AlertsTell
  BY ServerAssumption, AlertsInvTells DEF AlertsTell
<1> QED BY <1>1, AlertsInvariant, PTL

\* However sends fail, answers are lost and the process ends between a send and its note: the
\* receiver gets an event again only if the server could not know that it had it
\* (deliverPendingAlerts).
THEOREM AgainOnlyUnsure == ServerSpec => []AgainOnlyIfUnsure
<1>1. DeliveriesInv => AgainOnlyIfUnsure
  BY DEF DeliveriesInv, DeliveriesHasBeenTaken, AgainOnlyIfUnsure, Deliveries!AgainOnlyIfUnsure
<1> QED BY <1>1, DeliveriesInvariant, PTL

\* However calls are lost, repeated and late, and agents and hosts restart: a sample is stored
\* once, and the agent gives none up without a reason (ingestSample, Run).
THEOREM SamplesAreCounted == ServerSpec => []SamplesCounted
<1>1. PipelineInv => SamplesCounted
  BY ServerAssumption, PipelineInvCounts DEF SamplesCounted
<1> QED BY <1>1, PipelineInvariant, PTL

\* However samples come out of order or not at all: the traffic that is counted is what went
\* over the interface between the samples that were used (ingestSample, advanceTraffic).
THEOREM TrafficIsCounted == ServerSpec => []TrafficCounted
<1>1. PipelineInv => TrafficCounted
  BY ServerAssumption, PipelineInvCounts DEF TrafficCounted
<1> QED BY <1>1, PipelineInvariant, PTL

\* However many questions and windows come and go, and whenever the session ends: the dialog of
\* the question asked first is shown and no other one, and the page scrolls exactly when nothing
\* lies over it (Dialogs, Modal).
THEOREM TheFirstIsShown == ServerSpec => []FirstIsShown
<1>1. AskingInv => FirstIsShown
  BY AskingInvShows DEF FirstIsShown
<1> QED BY <1>1, AskingInvariant, PTL
====
