---- MODULE AlertEngine ----
(***************************************************************************)
(* The alerts of one host: what evaluateHostAlerts makes, every few        *)
(* seconds, of the host's latest reading and of the time since its last    *)
(* current one, and the state of each alert that it keeps in alert_rules   *)
(* between two evaluations.                                                *)
(*                                                                         *)
(* An evaluation is one transaction under the locks of the binding and of  *)
(* the rules, so it is one action; how much later the next one comes is    *)
(* not fixed.  A value is compared with its limit when it is read: "high"  *)
(* reaches the limit, "low" is below the hysteresis, "none" is missing.    *)
(***************************************************************************)
EXTENDS Integers, Sequences, SequencesExt

CONSTANTS
  Metrics,        \* keys of the thresholds that every evaluation looks at
  Mounts,         \* keys of the thresholds of mounts, looked at if the reading has them
  Never,          \* NULL
  Gap,            \* 15 seconds
  Online,         \* three intervals: older than that the host is not online
  Grace,          \* OfflineGraceSeconds
  Hold,           \* DurationSeconds
  Recovery,       \* RecoverySeconds
  Cooldown,       \* CooldownSeconds
  MaxTime,        \* bounds of the model: the clock,
  MaxChanges,     \* the owner's changes of the rules,
  Remembered      \* observations of the history

\* What a run or a suite states as its ASSUME.  Remembered is enough to see what an
\* alert or its end rests on.
Assumptions ==
  /\ Never \notin Nat
  /\ Gap \in Nat /\ Online \in Nat /\ Grace \in Nat /\ Online < Grace
  /\ Hold \in Nat /\ Recovery \in Nat /\ Cooldown \in Nat
  /\ MaxTime \in Nat /\ MaxChanges \in Nat
  /\ Remembered \in Nat /\ Remembered > Hold /\ Remembered > Recovery

Offline == "agent_offline"
Keys    == {Offline} \cup Metrics \cup Mounts

VARIABLES
  clock,
  lastCurrent,   \* agent_bindings.last_current
  values,        \* Values of agent_bindings.latest, against the limits
  muted,         \* rules disabled or muted, collection paused or binding disabled
  state,         \* alert_rules.state; an absent entry is the initial one
  evaluated,     \* when the last evaluation was
  changes,
  (* history, since the rules were last saved *)
  seen,          \* what each evaluation saw of each key
  raised         \* the events of each key

vars == <<clock, lastCurrent, values, muted, state, evaluated, changes, seen, raised>>

Times     == 0..MaxTime
Maybe(S)  == S \cup {Never}
Levels    == {"high", "between", "low", "none"}
Sights    == {"high", "between", "low", "unknown"}
AlertState == [active : BOOLEAN, since : Maybe(Times), recoverySince : Maybe(Times),
               lastObserved : Maybe(Times), lastNotified : Maybe(Times)]
NewState   == [active |-> FALSE, since |-> Never, recoverySince |-> Never,
               lastObserved |-> Never, lastNotified |-> Never]

TypeOK ==
  /\ clock \in Times /\ lastCurrent \in Maybe(Times)
  /\ values \in [Metrics \cup Mounts -> Levels] /\ muted \in BOOLEAN
  /\ state \in [Keys -> AlertState]
  /\ evaluated \in Maybe(Times) /\ changes \in 0..MaxChanges
  /\ \A k \in Keys : seen[k] \in Seq([at : Times, what : Sights])
  /\ \A k \in Keys : raised[k] \in Seq([at : Times, kind : {"trigger", "recovery"}])

Init ==
  /\ clock = 0 /\ lastCurrent = Never /\ muted = FALSE
  /\ values = [m \in Metrics \cup Mounts |-> "none"]
  /\ state = [k \in Keys |-> NewState]
  /\ evaluated = Never /\ changes = 0
  /\ seen = [k \in Keys |-> <<>>] /\ raised = [k \in Keys |-> <<>>]

-----------------------------------------------------------------------------
(* transitionAlert: the next state of an alert and the change it is, if any *)

LongerThan(since, duration) == since # Never => clock - since >= duration

\* Mutant: a gap between observations is not noticed.
ObservedAnyTime(st) == [st EXCEPT !.lastObserved = clock]

Observed(st) ==
  LET late == st.lastObserved # Never /\ clock - st.lastObserved > Gap
  IN [st EXCEPT !.lastObserved = clock,
                !.since = IF late THEN Never ELSE @,
                !.recoverySince = IF late THEN Never ELSE @]

\* Mutant: a recovery is taken back up at once, however short the last one was.
InactiveNoCooldown(st, high, hold) ==
  LET since == IF st.since = Never THEN clock ELSE st.since
      quiet == [st EXCEPT !.recoverySince = Never]
  IN IF ~high THEN [state |-> [quiet EXCEPT !.since = Never], change |-> "none"]
     ELSE IF clock - since >= hold
          THEN [state |-> [quiet EXCEPT !.since = since, !.active = TRUE, !.lastNotified = clock],
                change |-> "trigger"]
          ELSE [state |-> [quiet EXCEPT !.since = since], change |-> "none"]

Inactive(st, high, hold) ==
  LET since == IF st.since = Never THEN clock ELSE st.since
      quiet == [st EXCEPT !.recoverySince = Never]
  IN IF ~high THEN [state |-> [quiet EXCEPT !.since = Never], change |-> "none"]
     ELSE IF clock - since >= hold /\ LongerThan(st.lastNotified, Cooldown)
          THEN [state |-> [quiet EXCEPT !.since = since, !.active = TRUE, !.lastNotified = clock],
                change |-> "trigger"]
          ELSE [state |-> [quiet EXCEPT !.since = since], change |-> "none"]

ActiveAlert(st, low) ==
  LET since == IF st.recoverySince = Never THEN clock ELSE st.recoverySince
      quiet == [st EXCEPT !.since = Never]
  IN IF ~low THEN [state |-> [quiet EXCEPT !.recoverySince = Never], change |-> "none"]
     ELSE IF clock - since >= Recovery
          THEN [state |-> [quiet EXCEPT !.active = FALSE, !.recoverySince = Never,
                                        !.lastNotified = clock],
                change |-> "recovery"]
          ELSE [state |-> [quiet EXCEPT !.recoverySince = since], change |-> "none"]

TransitionAlert(st, what, hold) ==
  IF what = "unknown"
  THEN [state |-> [st EXCEPT !.since = Never, !.recoverySince = Never, !.lastObserved = Never],
        change |-> "none"]
  ELSE LET next == Observed(st)
       IN IF st.active THEN ActiveAlert(next, what = "low")
                       ELSE Inactive(next, what = "high", hold)

-----------------------------------------------------------------------------
(* The surroundings *)

Tick ==
  /\ clock < MaxTime
  /\ clock' = clock + 1
  /\ UNCHANGED <<lastCurrent, values, muted, state, evaluated, changes, seen, raised>>

\* ingestAgent: an ordered sample, from which a mount may be missing; a fresh one
\* makes the host current.
Report(reading, fresh) ==
  /\ lastCurrent' = (IF fresh THEN clock ELSE lastCurrent)
  /\ values' = reading
  /\ UNCHANGED <<clock, muted, state, evaluated, changes, seen, raised>>

\* agentRegister: last_current is NULL until the new agent reports.
Rebind ==
  /\ lastCurrent # Never /\ lastCurrent' = Never
  /\ UNCHANGED <<clock, values, muted, state, evaluated, changes, seen, raised>>

\* The time of a mute is over, or collection is paused or resumed.
Mute ==
  /\ changes < MaxChanges /\ changes' = changes + 1
  /\ muted' = ~muted
  /\ UNCHANGED <<clock, lastCurrent, values, state, evaluated, seen, raised>>

\* alertsSave, and with the rules the mute; the state starts anew.
AlertsSave ==
  /\ changes < MaxChanges /\ changes' = changes + 1
  /\ muted' \in BOOLEAN
  /\ state' = [k \in Keys |-> NewState]
  /\ seen' = [k \in Keys |-> <<>>] /\ raised' = [k \in Keys |-> <<>>]
  /\ UNCHANGED <<clock, lastCurrent, values, evaluated>>

-----------------------------------------------------------------------------
(* evaluateHostAlerts *)

IsFresh == ~muted /\ lastCurrent # Never /\ clock - lastCurrent <= Online

What(k) ==
  IF k = Offline
  THEN IF muted \/ lastCurrent = Never THEN "unknown"
       ELSE IF clock - lastCurrent >= Grace THEN "high"
       ELSE IF IsFresh THEN "low" ELSE "between"
  ELSE IF IsFresh /\ values[k] # "none" THEN values[k] ELSE "unknown"

\* The history keeps the newest observations.
Newest(q) == IF Len(q) > Remembered THEN Tail(q) ELSE q

HoldOf(k) == IF k = Offline THEN 0 ELSE Hold

\* The keys this evaluation looks at; the state of the others is deleted.
ActiveKeys == {Offline} \cup Metrics \cup {m \in Mounts : values[m] # "none"}

Evaluate ==
  LET result == [k \in ActiveKeys |->
                   TransitionAlert(state[k], What(k), HoldOf(k))]
  IN /\ evaluated # clock /\ evaluated' = clock
     /\ state' = [k \in Keys |-> IF k \in ActiveKeys THEN result[k].state ELSE NewState]
     /\ raised' = [k \in Keys |->
          IF k \in ActiveKeys /\ result[k].change # "none"
          THEN Append(raised[k], [at |-> clock, kind |-> result[k].change])
          ELSE raised[k]]
     /\ seen' = [k \in Keys |->
          Newest(Append(seen[k], [at |-> clock,
                                  what |-> IF k \in ActiveKeys THEN What(k) ELSE "unknown"]))]
     /\ UNCHANGED <<clock, lastCurrent, values, muted, changes>>

Next ==
  \/ Tick \/ Rebind \/ Mute \/ AlertsSave \/ Evaluate
  \/ \E reading \in [Metrics \cup Mounts -> Levels], fresh \in BOOLEAN : Report(reading, fresh)

Spec == Init /\ [][Next]_vars

-----------------------------------------------------------------------------
(* Correctness *)

\* Whether everything seen of k, since some evaluation at least duration before the
\* last one, was what, with no longer gap than Gap between two evaluations.
SeenFor(k, what, duration) ==
  \E i \in DOMAIN seen[k] :
    /\ Last(seen[k]).at - seen[k][i].at >= duration
    /\ \A j \in i..Len(seen[k]) :
         /\ seen[k][j].what = what
         /\ j > i => seen[k][j].at - seen[k][j - 1].at <= Gap

\* An alert is raised only for what has been observed without interruption for its
\* whole duration, and ended only for what has been observed for the recovery
\* time: a late evaluation, a missing value, a mute or a silent agent in between
\* starts both anew (transitionAlert's comment: "uninterrupted observations and
\* separate recovery dwell").
Sustained ==
  [][\A k \in Keys : Len(raised'[k]) > Len(raised[k]) =>
       IF Last(raised'[k]).kind = "trigger"
       THEN SeenFor(k, "high", HoldOf(k))' ELSE SeenFor(k, "low", Recovery)']_vars

\* The owner is told of an alert and of its end in turn, and of a new one not
\* before the cooldown after the last message is over (transitionAlert's
\* LastNotified, which must survive everything but the saving of the rules).
Paced ==
  \A k \in Keys : \A i \in DOMAIN raised[k] :
    /\ raised[k][i].kind = IF i % 2 = 1 THEN "trigger" ELSE "recovery"
    /\ i > 1 /\ raised[k][i].kind = "trigger" => raised[k][i].at - raised[k][i - 1].at >= Cooldown

\* An alert that was raised is active until its recovery: missing values suspend
\* it and end nothing (transitionAlert's comment: "Missing metrics suspend active
\* alerts; they never mean a recovered zero").
ActiveUntilRecovered ==
  \A k \in Keys : raised[k] # <<>> /\ Last(raised[k]).kind = "trigger" => state[k].active
====
