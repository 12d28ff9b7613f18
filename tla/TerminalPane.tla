---- MODULE TerminalPane ----
(***************************************************************************)
(* The terminals of the connections (Workspace.tsx): the socket of each,   *)
(* the ways by which text gets to the shell of the host, and the assistant *)
(* whose commands are filled in.  A paste of several lines waits for an    *)
(* answer of the user, while sockets close and panes come and go.          *)
(***************************************************************************)
EXTENDS Naturals

CONSTANTS
  Panes,       \* connections, each with a workspace of its own
  Texts,
  Breaking,    \* the texts with a line break
  Control,     \* those with a control character, a line break or another
  Nothing,
  MaxTexts     \* given to a terminal

VARIABLES
  pane,        \* "absent", "open" or "removed": the workspace of a connection
  socket,      \* "none", "connecting", "open" or "closed"
  active,      \* the pane that is shown
  questions,   \* multi-line pastes that wait for an answer: pane and text
  assistant,   \* of each pane: whether it generates, and the command it offers
  count,
  given,       \* <<pane, text>>: what the user gave to a terminal and need not, or did, confirm
  unasked      \* what a shell got without it

vars == <<pane, socket, active, questions, assistant, count, given, unasked>>

NoAssistant == [busy |-> FALSE, command |-> Nothing]

Assumptions ==
  /\ Breaking \subseteq Control /\ Control \subseteq Texts
  /\ Nothing \notin Texts \cup Panes /\ MaxTexts \in Nat

-----------------------------------------------------------------------------
Init ==
  /\ pane = [p \in Panes |-> "absent"] /\ socket = [p \in Panes |-> "none"]
  /\ active = Nothing /\ questions = {}
  /\ assistant = [p \in Panes |-> NoAssistant] /\ count = 0
  /\ given = {} /\ unasked = {}

Covered == questions # {}

Counts == count < MaxTexts /\ count' = count + 1

\* External: the shell of the connection reads what comes over its socket.
Receives(p, text, allowed) ==
  /\ unasked' = IF <<p, text>> \in allowed THEN unasked ELSE unasked \cup {<<p, text>>}
  /\ given' = allowed \ {<<p, text>>}

-----------------------------------------------------------------------------
\* connect() adds a workspace; its effect makes the terminal and the socket.
Mount(p) ==
  /\ pane[p] = "absent"
  /\ pane' = [pane EXCEPT ![p] = "open"] /\ socket' = [socket EXCEPT ![p] = "connecting"]
  /\ active' = p
  /\ UNCHANGED <<questions, assistant, count, given, unasked>>

Opens(p) ==
  /\ socket[p] = "connecting" /\ socket' = [socket EXCEPT ![p] = "open"]
  /\ UNCHANGED <<pane, active, questions, assistant, count, given, unasked>>

\* The connection ends; the workspace stays, and reconnecting opens another one.
Closes(p) ==
  /\ socket[p] \in {"connecting", "open"} /\ socket' = [socket EXCEPT ![p] = "closed"]
  /\ UNCHANGED <<pane, active, questions, assistant, count, given, unasked>>

\* The connection is closed by the user, or the account is left: dispose().
Unmount(p) ==
  /\ pane[p] = "open"
  /\ pane' = [pane EXCEPT ![p] = "removed"] /\ socket' = [socket EXCEPT ![p] = "closed"]
  /\ active' \in IF active = p THEN {q \in Panes : pane'[q] = "open"} \cup {Nothing}
                 ELSE {active}
  /\ assistant' = [assistant EXCEPT ![p] = NoAssistant]
  /\ UNCHANGED <<questions, count, given, unasked>>

Select(p) ==
  /\ ~Covered /\ pane[p] = "open" /\ p # active /\ active' = p
  /\ UNCHANGED <<pane, socket, questions, assistant, count, given, unasked>>

-----------------------------------------------------------------------------
\* A paste of one line goes through xterm; one of several is held back for a question.
Paste(text) ==
  /\ ~Covered /\ active # Nothing /\ Counts
  /\ IF text \in Breaking
       THEN questions' = questions \cup {<<active, text>>} /\ UNCHANGED <<given, unasked>>
       ELSE /\ UNCHANGED questions
            /\ IF socket[active] = "open" THEN Receives(active, text, given \cup {<<active, text>>})
               ELSE UNCHANGED <<given, unasked>>
  /\ UNCHANGED <<pane, socket, active, assistant>>

\* The answer is used with the terminal and the socket of the paste.
Target(q) == q[1]

PasteAnswered(q, yes) ==
  /\ q \in questions /\ questions' = questions \ {q}
  /\ IF yes /\ socket[Target(q)] = "open"
       THEN Receives(Target(q), q[2], given \cup {q})
       ELSE UNCHANGED <<given, unasked>>
  /\ UNCHANGED <<pane, socket, active, assistant, count>>

\* insert(): a path of the file panel, a text dropped on the terminal, a command of the
\* assistant.  None of them is to run anything by itself.
MayInsert(text) == text \notin Control

Insert(p, text) ==
  /\ ~Covered /\ pane[p] = "open"
  /\ IF MayInsert(text) /\ socket[p] = "open"
       THEN Receives(p, text, IF text \in Breaking THEN given ELSE given \cup {<<p, text>>})
       ELSE UNCHANGED <<given, unasked>>
  /\ UNCHANGED <<pane, socket, active, questions>>

Drop(text) == active # Nothing /\ Counts /\ Insert(active, text) /\ UNCHANGED assistant

\* The assistant asks the AI service; the command of its last answer is offered, also
\* while it generates the next one.
Generate(p) ==
  /\ ~Covered /\ p = active /\ pane[p] = "open" /\ ~assistant[p].busy /\ Counts
  /\ assistant' = [assistant EXCEPT ![p].busy = TRUE]
  /\ UNCHANGED <<pane, socket, active, questions, given, unasked>>

Generated(p, text) ==
  /\ assistant[p].busy /\ assistant' = [assistant EXCEPT ![p].command = text]
  /\ UNCHANGED <<pane, socket, active, questions, count, given, unasked>>

GenerationEnds(p) ==
  /\ assistant[p].busy /\ assistant' = [assistant EXCEPT ![p].busy = FALSE]
  /\ UNCHANGED <<pane, socket, active, questions, count, given, unasked>>

FillIn(p) ==
  /\ p = active /\ assistant[p].command \in Texts \ Control /\ Counts
  /\ Insert(p, assistant[p].command) /\ UNCHANGED assistant

CloseAssistant(p) ==
  /\ ~Covered /\ p = active /\ assistant[p] # NoAssistant
  /\ assistant' = [assistant EXCEPT ![p] = NoAssistant]
  /\ UNCHANGED <<pane, socket, active, questions, count, given, unasked>>

-----------------------------------------------------------------------------
Next ==
  \/ \E p \in Panes : \/ Mount(p) \/ Opens(p) \/ Closes(p) \/ Unmount(p) \/ Select(p)
                      \/ Generate(p) \/ GenerationEnds(p) \/ FillIn(p) \/ CloseAssistant(p)
                      \/ \E text \in Texts : Generated(p, text)
  \/ \E text \in Texts : Paste(text) \/ Drop(text)
  \/ \E q \in questions, yes \in BOOLEAN : PasteAnswered(q, yes)

Spec == Init /\ [][Next]_vars

-----------------------------------------------------------------------------
TypeOK ==
  /\ pane \in [Panes -> {"absent", "open", "removed"}]
  /\ socket \in [Panes -> {"none", "connecting", "open", "closed"}]
  /\ active \in Panes \cup {Nothing}
  /\ questions \subseteq Panes \X Texts
  /\ assistant \in [Panes -> [busy : BOOLEAN, command : Texts \cup {Nothing}]]
  /\ count \in 0..MaxTexts
  /\ given \subseteq Panes \X Texts /\ unasked \subseteq Panes \X Texts

\* A text with a line break, which runs commands, reaches a shell only if the user has
\* confirmed it, and only the shell of the terminal into which it was pasted; whatever is
\* filled in waits for the user's return key (Workspace: paste, insert).
LinesConfirmed == unasked = {}
====
