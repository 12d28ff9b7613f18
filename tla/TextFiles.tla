---- MODULE TextFiles ----
(***************************************************************************)
(* Editing a text file of a host: the editors of the page (Files.tsx: edit *)
(* and TextEditor) and the server's write (files.go: readText, writeText), *)
(* which compares the version - a hash of the content - twice under a lock *)
(* of its own and then renames.  Other programs of the host know no lock.  *)
(***************************************************************************)
EXTENDS Naturals, FiniteSets

CONSTANTS
  Files, Contents, Editors,
  None,
  MaxOutside, MaxSaves

VARIABLES
  disk,       \* content of each file
  lock,       \* lockFile(hostID, path): the editor whose request holds it
  opening,    \* files whose text is on its way, with that text (edit)
  path,       \* file.path, None while the editor is closed
  content, version, original,   \* states of TextEditor
  save,       \* the request that saves: its step, path, content and version, and whether
              \* the editor that sent it is still open
  reload,     \* the text that is on its way for a reload, None without one
  seen,       \* contents this editor has read or written
  slipped,    \* written by another program since the second check
  outside, saves

vars == <<disk, lock, opening, path, content, version, original, save, reload, seen, slipped,
          outside, saves>>
page == <<opening, path, content, version, original, reload, seen>>

Assumptions ==
  /\ None \notin Files \cup Contents \cup Editors
  /\ MaxOutside \in Nat /\ MaxSaves \in Nat

NoSave == [step |-> "none", path |-> None, content |-> None, version |-> None,
           here |-> FALSE]

Init ==
  /\ disk \in [Files -> Contents]
  /\ lock = [f \in Files |-> None]
  /\ opening = [e \in Editors |-> [f \in Files |-> None]]
  /\ path = [e \in Editors |-> None]
  /\ content = [e \in Editors |-> None] /\ version = content /\ original = content
  /\ save = [e \in Editors |-> NoSave]
  /\ reload = [e \in Editors |-> None]
  /\ seen = [e \in Editors |-> {}]
  /\ slipped = {} /\ outside = 0 /\ saves = 0

-----------------------------------------------------------------------------
\* edit(): the server reads; the editor opens with the answer.  One that is open already
\* keeps its text, its version and its changes, and takes the path of the late answer.
Ask(e, f) ==
  /\ path[e] = None /\ opening[e][f] = None
  /\ opening' = [opening EXCEPT ![e][f] = disk[f]]
  /\ UNCHANGED <<disk, lock, path, content, version, original, save, reload, seen, slipped,
                 outside, saves>>

Opens(e, f) ==
  LET text == opening[e][f] IN
  /\ text # None
  /\ opening' = [opening EXCEPT ![e][f] = None]
  /\ path' = [path EXCEPT ![e] = f]
  /\ IF path[e] = None
       THEN /\ content' = [content EXCEPT ![e] = text]
            /\ version' = [version EXCEPT ![e] = text]
            /\ original' = [original EXCEPT ![e] = text]
            /\ seen' = [seen EXCEPT ![e] = @ \cup {text}]
       ELSE UNCHANGED <<content, version, original, seen>>
  /\ UNCHANGED <<disk, lock, save, reload, slipped, outside, saves>>

Type(e, c) ==
  /\ path[e] # None /\ content[e] # c
  /\ content' = [content EXCEPT ![e] = c]
  /\ UNCHANGED <<disk, lock, opening, path, version, original, save, reload, seen, slipped,
                 outside, saves>>

\* Reload, after a question if there are changes; it is not kept from running beside a save.
AskReload(e) ==
  /\ path[e] # None /\ reload[e] = None
  /\ reload' = [reload EXCEPT ![e] = disk[path[e]]]
  /\ UNCHANGED <<disk, lock, opening, path, content, version, original, save, seen, slipped,
                 outside, saves>>

Reloaded(e) ==
  LET text == reload[e] IN
  /\ text # None
  /\ reload' = [reload EXCEPT ![e] = None]
  /\ content' = [content EXCEPT ![e] = text] /\ version' = [version EXCEPT ![e] = text]
  /\ original' = [original EXCEPT ![e] = text]
  /\ seen' = [seen EXCEPT ![e] = @ \cup {text}]
  /\ UNCHANGED <<disk, lock, opening, path, save, slipped, outside, saves>>

\* The window closes, after a question if there are changes.  Answers that come later
\* change nothing, the server saves all the same.
Close(e) ==
  /\ path[e] # None
  /\ path' = [path EXCEPT ![e] = None]
  /\ content' = [content EXCEPT ![e] = None] /\ version' = [version EXCEPT ![e] = None]
  /\ original' = [original EXCEPT ![e] = None]
  /\ reload' = [reload EXCEPT ![e] = None]
  /\ save' = [save EXCEPT ![e].here = FALSE]
  /\ UNCHANGED <<disk, lock, opening, seen, slipped, outside, saves>>

-----------------------------------------------------------------------------
Save(e) ==
  /\ path[e] # None /\ content[e] # original[e] /\ save[e] = NoSave /\ saves < MaxSaves
  /\ save' = [save EXCEPT ![e] = [step |-> "sent", path |-> path[e], content |-> content[e],
                                  version |-> version[e], here |-> TRUE]]
  /\ saves' = saves + 1
  /\ UNCHANGED <<disk, lock, page, slipped, outside>>

To(e, step) == save' = [save EXCEPT ![e].step = step]
Held(e) == lock[save[e].path] = e

Lock(e) ==
  /\ save[e].step = "sent" /\ lock[save[e].path] = None
  /\ lock' = [lock EXCEPT ![save[e].path] = e]
  /\ To(e, "locked")
  /\ UNCHANGED <<disk, page, slipped, outside, saves>>

\* The first check, the temporary file, the second check.
Refuse(e) == To(e, "conflict") /\ lock' = [lock EXCEPT ![save[e].path] = None]

Check(e) ==
  /\ save[e].step = "locked"
  /\ IF disk[save[e].path] = save[e].version THEN To(e, "written") /\ UNCHANGED lock ELSE Refuse(e)
  /\ UNCHANGED <<disk, page, slipped, outside, saves>>

\* Mutant: what was checked before the temporary file was written is not checked again.
RecheckNothing(e) ==
  /\ save[e].step = "written" /\ To(e, "checked")
  /\ slipped' = slipped \ {save[e].path}
  /\ UNCHANGED <<disk, lock, page, outside, saves>>

Recheck(e) ==
  /\ save[e].step = "written"
  /\ IF disk[save[e].path] = save[e].version THEN To(e, "checked") /\ UNCHANGED lock ELSE Refuse(e)
  /\ slipped' = slipped \ {save[e].path}
  /\ UNCHANGED <<disk, page, outside, saves>>

Rename(e) ==
  /\ save[e].step = "checked"
  /\ disk' = [disk EXCEPT ![save[e].path] = save[e].content]
  /\ lock' = [lock EXCEPT ![save[e].path] = None]
  /\ To(e, "saved")
  /\ UNCHANGED <<page, slipped, outside, saves>>

SaveAnswered(e) ==
  /\ save[e].step = "saved"
  /\ IF save[e].here
       THEN /\ version' = [version EXCEPT ![e] = save[e].content]
            /\ original' = [original EXCEPT ![e] = save[e].content]
       ELSE UNCHANGED <<version, original>>
  /\ seen' = [seen EXCEPT ![e] = @ \cup {save[e].content}]
  /\ save' = [save EXCEPT ![e] = NoSave]
  /\ UNCHANGED <<disk, lock, opening, path, content, reload, slipped, outside, saves>>

\* 409; or the answer is lost, and the editor does not know that its text was saved.
Failed(e) ==
  /\ save[e].step \in {"conflict", "saved"}
  /\ save' = [save EXCEPT ![e] = NoSave]
  /\ UNCHANGED <<disk, lock, page, slipped, outside, saves>>

\* External: another program writes the file.
Outside(f, c) ==
  /\ outside < MaxOutside /\ outside' = outside + 1
  /\ disk' = [disk EXCEPT ![f] = c]
  /\ slipped' = slipped \cup {f}
  /\ UNCHANGED <<lock, page, save, saves>>

Next ==
  \/ \E e \in Editors :
       \/ \E f \in Files : Ask(e, f) \/ Opens(e, f)
       \/ \E c \in Contents : Type(e, c)
       \/ AskReload(e) \/ Reloaded(e) \/ Close(e)
       \/ Save(e) \/ Lock(e) \/ Check(e) \/ Recheck(e) \/ Rename(e) \/ SaveAnswered(e) \/ Failed(e)
  \/ \E f \in Files, c \in Contents : Outside(f, c)

Spec == Init /\ [][Next]_vars

-----------------------------------------------------------------------------
AnyText == Contents \cup {None}

TypeOK ==
  /\ disk \in [Files -> Contents] /\ lock \in [Files -> Editors \cup {None}]
  /\ opening \in [Editors -> [Files -> AnyText]]
  /\ path \in [Editors -> Files \cup {None}]
  /\ {content, version, original, reload} \subseteq [Editors -> AnyText]
  /\ save \in [Editors -> [step : {"none", "sent", "locked", "written", "checked", "saved",
                                   "conflict"},
                           path : Files \cup {None}, content : AnyText, version : AnyText,
                           here : BOOLEAN]]
  /\ seen \in [Editors -> SUBSET Contents] /\ slipped \subseteq Files
  /\ outside \in 0..MaxOutside /\ saves \in 0..MaxSaves

\* What a save takes from the disk is a text its editor has read or written, unless another
\* program wrote between the second check and the rename (writeText, TextEditor).
SavesOverSeen ==
  [][\A e \in Editors, f \in Files :
       save[e].step = "checked" /\ save'[e].step = "saved" /\ save[e].path = f
         => disk[f] \in seen[e] \/ f \in slipped]_vars
====
