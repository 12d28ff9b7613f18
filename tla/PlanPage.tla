---- MODULE PlanPage ----
(***************************************************************************)
(* The page of AI tasks (AIPage.tsx): the list of tasks, the plan that is  *)
(* shown, its execution and its deletion.  The handlers go on over         *)
(* questions, a connection, loading and a stream of events; the user may   *)
(* look at another plan meanwhile.  The server's side is TaskExecution.    *)
(***************************************************************************)
EXTENDS Naturals

CONSTANTS
  Tasks,
  Risky,        \* the tasks with a step that is not of risk "read"
  None,
  MaxLooks      \* how often the user opens a plan of the list

VARIABLES
  status,       \* of the server
  list,         \* tasks, as last loaded
  loading,      \* a load() is under way
  shown,        \* current: a task, the status the page has of it, and whose output it shows
  creating,     \* the form: "idle", or "sent"
  running,
  run,          \* execute()
  removal,      \* the deletion of a task
  looks,
  asked,        \* the task of the open question, as the user sees it
  agreed,       \* <<what, task>>: that the user has agreed to
  unasked       \* what the server was made to do without it

vars == <<status, list, loading, shown, creating, running, run, removal, looks, asked, agreed,
          unasked>>
server == <<status, list, loading>>
history == <<asked, agreed, unasked>>
handlers == <<creating, running, run, removal>>

Statuses == {"absent", "planned", "running", "ended", "deleted"}
NoPlan   == [task |-> None, status |-> "absent", output |-> None]
Idle     == [pc |-> "idle", task |-> None]
Deeds    == {"execute", "delete"} \X Tasks

Assumptions == Risky \subseteq Tasks /\ None \notin Tasks /\ MaxLooks \in Nat

-----------------------------------------------------------------------------
Init ==
  /\ status \in [Tasks -> {"absent", "planned", "ended"}]
  /\ list = [t \in Tasks |-> "absent"] /\ loading = TRUE
  /\ shown = NoPlan /\ creating = "idle" /\ running = FALSE
  /\ run = Idle /\ removal = Idle /\ looks = 0
  /\ asked = None /\ agreed = {} /\ unasked = {}

\* A question or the credential dialog of connect() covers the page.
Covered == run.pc \in {"asking", "naming"} \/ removal.pc = "asking"

Reloads == loading' = TRUE

\* The server does what the page asks for.
Does(what, t) ==
  /\ unasked' = IF <<what, t>> \in agreed THEN unasked ELSE unasked \cup {<<what, t>>}
  /\ agreed' = agreed \ {<<what, t>>}

-----------------------------------------------------------------------------
\* An answer that is late only shows the list as it was for longer.
Loaded ==
  /\ loading /\ loading' = FALSE
  /\ list' = status \/ UNCHANGED list
  /\ UNCHANGED <<status, shown, handlers, looks, history>>

\* An entry of the list, and the button for a new task.
Look(t) ==
  /\ ~Covered /\ list[t] \notin {"absent", "deleted"} /\ looks < MaxLooks /\ looks' = looks + 1
  /\ shown' = [task |-> t, status |-> list[t],
               output |-> IF list[t] = "ended" THEN t ELSE None]
  /\ UNCHANGED <<server, handlers, history>>

NewTask ==
  /\ ~Covered /\ shown # NoPlan /\ shown' = NoPlan
  /\ UNCHANGED <<server, handlers, looks, history>>

\* The form is open while a plan runs; its answer shows the new plan.
Submit ==
  /\ ~Covered /\ creating = "idle" /\ ~running /\ creating' = "sent"
  /\ UNCHANGED <<server, shown, running, run, removal, looks, history>>

Planned(t) ==
  /\ creating = "sent" /\ status[t] = "absent"
  /\ status' = [status EXCEPT ![t] = "planned"] /\ Reloads
  /\ shown' = [task |-> t, status |-> "planned", output |-> None] /\ creating' = "idle"
  /\ UNCHANGED <<list, running, run, removal, looks, history>>

NotPlanned ==
  /\ creating = "sent" /\ creating' = "idle"
  /\ UNCHANGED <<server, shown, running, run, removal, looks, history>>

-----------------------------------------------------------------------------
Goes(pc) == run' = [run EXCEPT !.pc = pc]

\* execute() keeps the task that is shown, and asks about its commands; a task that
\* changes something needs the name of its host as well.
Execute ==
  /\ ~Covered /\ shown.status = "planned" /\ ~running /\ run = Idle
  /\ run' = [pc |-> "asking", task |-> shown.task] /\ asked' = shown.task
  /\ UNCHANGED <<server, shown, creating, running, removal, looks, agreed, unasked>>

Confirm ==
  /\ \/ /\ run.pc = "asking" /\ run.task \in Risky
        /\ Goes("naming") /\ UNCHANGED <<running, agreed>>
     \/ /\ run.pc = IF run.task \in Risky THEN "naming" ELSE "asking"
        /\ running' = TRUE /\ agreed' = agreed \cup {<<"execute", asked>>}
        /\ Goes("connecting")
  /\ asked' = IF running' THEN None ELSE asked
  /\ UNCHANGED <<server, shown, creating, removal, looks, unasked>>

Decline ==
  /\ run.pc \in {"asking", "naming"} /\ run' = Idle /\ asked' = None
  /\ UNCHANGED <<server, shown, creating, running, removal, looks, agreed, unasked>>

\* A connection of the host, or a new one.
Connected ==
  /\ run.pc = "connecting" /\ Goes("posting")
  /\ UNCHANGED <<server, shown, creating, running, removal, looks, history>>

Posted == run.task

\* The server begins to execute the task, or refuses.
Begun ==
  /\ run.pc = "posting" /\ status[Posted] = "planned"
  /\ status' = [status EXCEPT ![Posted] = "running"] /\ Does("execute", Posted)
  /\ Goes("streaming")
  /\ shown' = [task |-> run.task, status |-> "running", output |-> None]
  /\ UNCHANGED <<list, loading, creating, running, removal, looks, asked>>

\* Output and analysis are put into whatever plan is shown.
Output ==
  /\ run.pc = "streaming" /\ shown # NoPlan
  /\ shown' = [shown EXCEPT !.output = run.task]
  /\ UNCHANGED <<server, handlers, looks, history>>

Done ==
  /\ run.pc = "streaming" /\ status[run.task] = "ended"
  /\ shown' = [task |-> run.task, status |-> "ended", output |-> run.task]
  /\ Goes("analysis")
  /\ UNCHANGED <<server, creating, running, removal, looks, history>>

Analysed ==
  /\ run.pc = "analysis"
  /\ shown' = IF shown = NoPlan THEN shown ELSE [shown EXCEPT !.output = run.task]
  /\ run' = Idle /\ running' = FALSE
  /\ UNCHANGED status /\ Reloads
  /\ UNCHANGED <<list, creating, removal, looks, history>>

\* No connection, a refusal, an error of the network: the end of execute().
RunFails ==
  /\ run.pc \in {"connecting", "posting", "streaming", "analysis"}
  /\ run' = Idle /\ running' = FALSE
  /\ agreed' = {a \in agreed : a # <<"execute", run.task>>}
  /\ UNCHANGED <<server, shown, creating, removal, looks, asked, unasked>>

\* Stop cancels the task that is shown, which need not be the one that runs.
Stop ==
  /\ ~Covered /\ shown # NoPlan /\ (running \/ shown.status = "running")
  /\ status[shown.task] = "running"
  /\ status' = [status EXCEPT ![shown.task] = "ended"]
  /\ UNCHANGED <<list, loading, shown, handlers, looks, history>>

\* External: a task ends.
Ends(t) ==
  /\ status[t] = "running" /\ status' = [status EXCEPT ![t] = "ended"]
  /\ UNCHANGED <<list, loading, shown, handlers, looks, history>>

-----------------------------------------------------------------------------
Delete ==
  /\ ~Covered /\ shown # NoPlan /\ shown.status # "running" /\ removal = Idle
  /\ removal' = [pc |-> "asking", task |-> shown.task] /\ asked' = shown.task
  /\ UNCHANGED <<server, shown, creating, running, run, looks, agreed, unasked>>

Answer(yes) ==
  /\ removal.pc = "asking"
  /\ removal' = IF yes THEN [removal EXCEPT !.pc = "sent"] ELSE Idle
  /\ agreed' = IF yes THEN agreed \cup {<<"delete", asked>>} ELSE agreed
  /\ asked' = None
  /\ UNCHANGED <<server, shown, creating, running, run, looks, unasked>>

\* The answer closes the plan that is shown, then the list is loaded again.
Deleted ==
  /\ removal.pc = "sent" /\ status[removal.task] \in {"planned", "ended"}
  /\ status' = [status EXCEPT ![removal.task] = "deleted"] /\ Does("delete", removal.task)
  /\ shown' = NoPlan /\ removal' = Idle /\ Reloads
  /\ UNCHANGED <<list, creating, running, run, looks, asked>>

DeleteFails ==
  /\ removal.pc = "sent" /\ removal' = Idle
  /\ agreed' = {a \in agreed : a # <<"delete", removal.task>>}
  /\ UNCHANGED <<server, shown, creating, running, run, looks, asked, unasked>>

-----------------------------------------------------------------------------
Next ==
  \/ Loaded \/ NewTask \/ Submit \/ NotPlanned
  \/ \E t \in Tasks : Look(t) \/ Planned(t) \/ Ends(t)
  \/ Execute \/ Confirm \/ Decline \/ Connected \/ Begun \/ Output \/ Done \/ Analysed
  \/ RunFails \/ Stop
  \/ Delete \/ Answer(TRUE) \/ Answer(FALSE) \/ Deleted \/ DeleteFails

Spec == Init /\ [][Next]_vars

-----------------------------------------------------------------------------
TypeOK ==
  /\ status \in [Tasks -> Statuses] /\ list \in [Tasks -> Statuses]
  /\ shown \in [task : Tasks \cup {None}, status : Statuses, output : Tasks \cup {None}]
  /\ creating \in {"idle", "sent"} /\ running \in BOOLEAN /\ loading \in BOOLEAN
  /\ run \in [pc : {"idle", "asking", "naming", "connecting", "posting", "streaming", "analysis"},
              task : Tasks \cup {None}]
  /\ removal \in [pc : {"idle", "asking", "sent"}, task : Tasks \cup {None}]
  /\ looks \in 0..MaxLooks /\ asked \in Tasks \cup {None}
  /\ agreed \subseteq Deeds /\ unasked \subseteq Deeds

\* The server executes and deletes only what the user has agreed to, each time anew, even
\* if another plan has come to be shown since the question (AIPage: execute, delete).
RunsWhatWasConfirmed == unasked = {}
====
