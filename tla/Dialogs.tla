---- MODULE Dialogs ----
(***************************************************************************)
(* The questions of the page and its windows (Dialogs.tsx, Modal.tsx): a   *)
(* queue of which the first is shown, and the stack of everything that     *)
(* lies over the page, where only the top takes clicks and keys.  Code     *)
(* that has waited for an answer of the server asks, or opens its window,  *)
(* whatever lies there by then.                                            *)
(***************************************************************************)
EXTENDS Naturals, SequencesExt, Selections

CONSTANTS
  Questions,   \* asked with confirmAction or promptValue
  Windows,     \* with a beforeClose that asks about unsaved changes
  MaxEdits,    \* how often the user changes the text of a window
  MaxExpiries

VARIABLES
  queue,    \* questions, and windows that ask whether to drop their changes
  answers,  \* of each promise: "none", "asked", "confirmed" or "refused"
  stack,    \* what lies over the page, the top at the end
  phase,    \* of what is on the stack: "open", "pending" or "closing"
  after,    \* the answer a dialog gives once it has closed (afterCloseRef)
  dirty,    \* windows with unsaved changes
  overflow, savedOverflow,   \* of the page: "page" or "hidden"
  edits, expiries

vars == <<queue, answers, stack, phase, after, dirty, overflow, savedOverflow, edits, expiries>>

Askers == Questions \cup Windows
Dialog(a) == <<"dialog", a>>
EditorModal(w) == <<"window", w>>
Modals == {Dialog(a) : a \in Askers} \cup {EditorModal(w) : w \in Windows}

Assumptions ==
  /\ Questions \cap Windows = {}
  /\ MaxEdits \in Nat /\ MaxExpiries \in Nat

Top(m) == stack # <<>> /\ Last(stack) = m
Asks(a) == queue # <<>> /\ Head(queue) = a

-----------------------------------------------------------------------------
Init ==
  /\ queue = <<>> /\ stack = <<>>
  /\ answers = [a \in Askers |-> "none"]
  /\ phase = [m \in Modals |-> "open"]
  /\ after = [a \in Askers |-> "refused"]
  /\ dirty = {}
  /\ overflow = "page" /\ savedOverflow = "page"
  /\ edits = 0 /\ expiries = 0

\* Mutant: each modal keeps the overflow it finds.
CommitSavesAlways(leave, enter) ==
  LET left     == Without(stack, leave)
      restored == IF stack # <<>> /\ left = <<>> THEN savedOverflow ELSE overflow
  IN /\ stack' = left \o enter
     /\ phase' = [m \in Modals |-> IF m \in leave THEN "open" ELSE phase[m]]
     /\ savedOverflow' = IF enter # <<>> THEN restored ELSE savedOverflow
     /\ overflow' = IF enter # <<>> THEN "hidden" ELSE restored

\* The effect of Modal, after the cleanups of those that leave in the same commit: the
\* first modal keeps the overflow of the page, the last one puts it back.
Commit(leave, enter) ==
  LET left     == Without(stack, leave)
      restored == IF stack # <<>> /\ left = <<>> THEN savedOverflow ELSE overflow
  IN /\ stack' = left \o enter
     /\ phase' = [m \in Modals |-> IF m \in leave THEN "open" ELSE phase[m]]
     /\ savedOverflow' = IF left = <<>> /\ enter # <<>> THEN restored ELSE savedOverflow
     /\ overflow' = IF enter # <<>> THEN "hidden" ELSE restored

\* DialogHost shows the dialog of the first question.
Shown(q) == IF q = <<>> THEN <<>> ELSE <<Dialog(Head(q))>>

Asked(a) ==
  /\ answers' = [answers EXCEPT ![a] = "asked"]
  /\ queue' = Append(queue, a)

\* confirmAction and promptValue.
Ask(q) ==
  /\ answers[q] = "none"
  /\ Asked(q)
  /\ Commit({}, IF queue = <<>> THEN Shown(queue') ELSE <<>>)
  /\ UNCHANGED <<after, dirty, edits, expiries>>

\* A window opens, often after an answer of the server (Files: edit).
Open(w) ==
  /\ EditorModal(w) \notin Range(stack)
  /\ Commit({}, <<EditorModal(w)>>)
  /\ UNCHANGED <<queue, answers, after, dirty, edits, expiries>>

Edit(w) ==
  /\ Top(EditorModal(w)) /\ phase[EditorModal(w)] # "closing" /\ w \notin dirty /\ edits < MaxEdits
  /\ dirty' = dirty \cup {w} /\ edits' = edits + 1
  /\ UNCHANGED <<queue, answers, stack, phase, after, overflow, savedOverflow, expiries>>

Save(w) ==
  /\ Top(EditorModal(w)) /\ w \in dirty
  /\ dirty' = dirty \ {w}
  /\ UNCHANGED <<queue, answers, stack, phase, after, overflow, savedOverflow, edits, expiries>>

\* requestClose: a dialog starts to close and keeps its answer for the end of the
\* animation, a window first waits for its beforeClose.
CloseDialog(a, answer) ==
  /\ Top(Dialog(a)) /\ phase[Dialog(a)] = "open"
  /\ phase' = [phase EXCEPT ![Dialog(a)] = "closing"]
  /\ after' = [after EXCEPT ![a] = answer]
  /\ UNCHANGED <<queue, answers, stack, dirty, overflow, savedOverflow, edits, expiries>>

CloseWindow(w) ==
  /\ Top(EditorModal(w)) /\ phase[EditorModal(w)] = "open" /\ w \notin dirty
  /\ phase' = [phase EXCEPT ![EditorModal(w)] = "closing"]
  /\ UNCHANGED <<queue, answers, stack, after, dirty, overflow, savedOverflow, edits, expiries>>

AskToDrop(w) ==
  /\ Top(EditorModal(w)) /\ phase[EditorModal(w)] = "open" /\ w \in dirty /\ answers[w] = "none"
  /\ Asked(w)
  /\ LET enter == IF queue = <<>> THEN Shown(queue') ELSE <<>>
     IN /\ stack' = stack \o enter
        /\ phase' = [phase EXCEPT ![EditorModal(w)] = "pending"]
  /\ UNCHANGED <<after, dirty, overflow, savedOverflow, edits, expiries>>

\* beforeClose has its answer: the window closes or stays.
Dropped(w) ==
  /\ phase[EditorModal(w)] = "pending" /\ answers[w] \in {"confirmed", "refused"}
  /\ phase' = [phase EXCEPT ![EditorModal(w)] =
                  IF answers[w] = "confirmed" THEN "closing" ELSE "open"]
  /\ answers' = [answers EXCEPT ![w] = "none"]
  /\ UNCHANGED <<queue, stack, after, dirty, overflow, savedOverflow, edits, expiries>>

\* Mutant: the first answer empties the queue.
DialogGoneWithAll(a) ==
  /\ Dialog(a) \in Range(stack) /\ phase[Dialog(a)] = "closing"
  /\ queue' = <<>>
  /\ answers' = [answers EXCEPT ![a] = after[a]]
  /\ Commit({Dialog(a)}, Shown(queue'))
  /\ after' = [after EXCEPT ![a] = "refused"]
  /\ UNCHANGED <<dirty, edits, expiries>>

\* The closing animation has ended: finish() answers and the next question is shown.
DialogGone(a) ==
  /\ Dialog(a) \in Range(stack) /\ phase[Dialog(a)] = "closing"
  /\ queue' = Without(queue, {a})
  /\ answers' = [answers EXCEPT ![a] = after[a]]
  /\ Commit({Dialog(a)}, Shown(queue'))
  /\ after' = [after EXCEPT ![a] = "refused"]
  /\ UNCHANGED <<dirty, edits, expiries>>

WindowGone(w) ==
  /\ EditorModal(w) \in Range(stack) /\ phase[EditorModal(w)] = "closing"
  /\ Commit({EditorModal(w)}, <<>>)
  /\ dirty' = dirty \ {w}
  /\ UNCHANGED <<queue, answers, after, edits, expiries>>

\* session-expired: every question is refused (cancelAll) and the pages with their
\* windows go.
Expire ==
  /\ expiries < MaxExpiries /\ expiries' = expiries + 1
  /\ queue' = <<>>
  /\ answers' = [a \in Askers |-> IF a \in Windows THEN "none"
                                  ELSE IF answers[a] = "asked" THEN "refused" ELSE answers[a]]
  /\ Commit(Modals, <<>>)
  /\ after' = [a \in Askers |-> "refused"] /\ dirty' = {}
  /\ UNCHANGED edits

Next ==
  \/ \E q \in Questions : Ask(q)
  \/ \E w \in Windows : \/ Open(w) \/ Edit(w) \/ Save(w) \/ CloseWindow(w) \/ AskToDrop(w)
                        \/ Dropped(w) \/ WindowGone(w)
  \/ \E a \in Askers : DialogGone(a) \/ \E v \in {"confirmed", "refused"} : CloseDialog(a, v)
  \/ Expire

Spec == Init /\ [][Next]_vars

\* The user answers what is on top, promises go on and animations end.
Fairness ==
  /\ \A a \in Askers : /\ WF_vars(\E v \in {"confirmed", "refused"} : CloseDialog(a, v))
                       /\ WF_vars(DialogGone(a))
  /\ \A w \in Windows : WF_vars(Dropped(w))

-----------------------------------------------------------------------------
TypeOK ==
  /\ queue \in Seq(Askers) /\ stack \in Seq(Modals)
  /\ answers \in [Askers -> {"none", "asked", "confirmed", "refused"}]
  /\ phase \in [Modals -> {"open", "pending", "closing"}]
  /\ after \in [Askers -> {"confirmed", "refused"}]
  /\ dirty \subseteq Windows
  /\ overflow \in {"page", "hidden"} /\ savedOverflow \in {"page", "hidden"}
  /\ edits \in 0..MaxEdits /\ expiries \in 0..MaxExpiries

\* One question is shown, the one asked first, each on the stack once; and the page
\* scrolls as before exactly when nothing lies over it, in whatever order windows and
\* questions came and went (DialogHost, Modal).
FirstIsShown ==
  /\ Without(stack, {EditorModal(w) : w \in Windows}) = Shown(queue)
  /\ IsInjective(stack)
  /\ overflow = IF stack = <<>> THEN "page" ELSE "hidden"

\* A window that opened over the dialog of the first question.
Buried == queue # <<>> /\ ~Top(Dialog(Head(queue)))

\* Every question is answered, unless a window that opens late buries it: the window's own
\* question then waits behind the one it covers (DialogHost, Modal: requestClose).
EveryoneIsAnswered ==
  \A q \in Questions : answers[q] = "asked" ~> (answers[q] # "asked" \/ Buried)
====
