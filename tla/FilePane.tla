---- MODULE FilePane ----
(***************************************************************************)
(* The files of a connection (Files.tsx): the directory it shows, the      *)
(* operations on the files of the host, the uploads and downloads.  Every  *)
(* handler keeps the directory that was shown when the user called it;     *)
(* the answers of other requests change the view meanwhile.  Other         *)
(* programs of the host create and delete files as well.                   *)
(***************************************************************************)
EXTENDS Naturals

CONSTANTS
  Dirs, Names,
  Ops, Loads, Transfers,   \* handlers, listings and transfers at the same time
  None,
  MaxOutside,              \* changes by other programs
  MaxCalls                 \* of handlers by the user

VARIABLES
  remote,      \* the names in each directory of the host
  path, entries, selected,
  loads,       \* listings on their way
  ops,         \* delete, rename, mkdir and create
  transfers,
  outside, calls,
  asked,       \* the files a question names, as the user saw them
  agreed,      \* <<who, file>>: what the user has agreed to have deleted or replaced
  taken        \* the files deleted or replaced without it

vars == <<remote, path, entries, selected, loads, ops, transfers, outside, calls, asked, agreed,
          taken>>

view == <<path, entries, selected>>
spent == <<outside, calls>>
history == <<asked, agreed, taken>>

FileNames == Dirs \X Names

NoLoad == [pc |-> "idle", dir |-> None, entries |-> {}]
NoOp   == [pc |-> "idle", kind |-> "none", dir |-> None, names |-> {}]
NoTransfer == [status |-> "none", pc |-> "idle", kind |-> "upload", dir |-> None, name |-> None,
               overwrite |-> FALSE]

Assumptions ==
  /\ None \notin Dirs \cup Names /\ MaxOutside \in Nat /\ MaxCalls \in Nat
  /\ Ops \cap Transfers = {} /\ Dirs # {}

-----------------------------------------------------------------------------
Init ==
  /\ remote \in [Dirs -> SUBSET Names]
  /\ path = None /\ entries = {} /\ selected = {}
  /\ loads = [l \in Loads |-> NoLoad]
  /\ ops = [o \in Ops |-> NoOp]
  /\ transfers = [t \in Transfers |-> NoTransfer]
  /\ outside = 0 /\ calls = 0
  /\ asked = [w \in Ops \cup Transfers |-> {}] /\ agreed = {} /\ taken = {}

\* A question covers the page.
Covered == \/ \E o \in Ops : ops[o].pc = "asking"
           \/ \E t \in Transfers : transfers[t].pc = "asking"

Calls == ~Covered /\ calls < MaxCalls /\ calls' = calls + 1

\* Mutant: a new list keeps the selection of the old one.
ShowsSelected(d, names) == path' = d /\ entries' = names /\ UNCHANGED selected

Shows(d, names) == path' = d /\ entries' = names /\ selected' = {}

\* The server deletes or replaces a file for `who`.
Takes(who, file) ==
  /\ taken' = IF <<who, file>> \in agreed THEN taken ELSE taken \cup {file}
  /\ agreed' = agreed \ {<<who, file>>}

\* Other programs of the host.
Outside(d, n) ==
  /\ outside < MaxOutside /\ outside' = outside + 1
  /\ remote' = [remote EXCEPT ![d] = IF n \in @ THEN @ \ {n} ELSE @ \cup {n}]
  /\ UNCHANGED <<view, loads, ops, transfers, calls, history>>

-----------------------------------------------------------------------------
\* load(): of another directory, or of the one that is shown.
Navigate(l, d) ==
  /\ Calls /\ loads[l] = NoLoad
  /\ loads' = [loads EXCEPT ![l] = [NoLoad EXCEPT !.pc = "sent", !.dir = d]]
  /\ UNCHANGED <<remote, view, ops, transfers, outside, history>>

Read(l) ==
  /\ loads[l].pc = "sent"
  /\ loads' = [loads EXCEPT ![l].pc = "read", ![l].entries = remote[loads[l].dir]]
  /\ UNCHANGED <<remote, view, ops, transfers, spent, history>>

Listed(l) ==
  /\ loads[l].pc = "read"
  /\ Shows(loads[l].dir, loads[l].entries)
  /\ loads' = [loads EXCEPT ![l] = NoLoad]
  /\ UNCHANGED <<remote, ops, transfers, spent, history>>

ListFails(l) ==
  /\ loads[l].pc # "idle"
  /\ loads' = [loads EXCEPT ![l] = NoLoad]
  /\ UNCHANGED <<remote, view, ops, transfers, spent, history>>

Tick(n) ==
  /\ ~Covered /\ n \in entries
  /\ selected' = IF n \in selected THEN selected \ {n} ELSE selected \cup {n}
  /\ UNCHANGED <<remote, path, entries, loads, ops, transfers, spent, history>>

-----------------------------------------------------------------------------
\* The buttons of a row and of the selection ask, with the directory of the moment.
Ask(o, kind, names) ==
  /\ Calls /\ path # None /\ ops[o] = NoOp
  /\ ops' = [ops EXCEPT ![o] = [pc |-> "asking", kind |-> kind, dir |-> path, names |-> names]]
  /\ asked' = [asked EXCEPT ![o] = {path} \X names]
  /\ UNCHANGED <<remote, view, loads, transfers, outside, agreed, taken>>

DeleteSelected(o) == selected # {} /\ Ask(o, "delete", selected)
DeleteOne(o, n)   == n \in entries /\ Ask(o, "delete", {n})
Move(o, n)        == n \in entries /\ Ask(o, "move", {n})
Create(o, n)      == Ask(o, "create", {n})

Confirm(o) ==
  /\ ops[o].pc = "asking"
  /\ ops' = [ops EXCEPT ![o].pc = "sent"]
  /\ agreed' = IF ops[o].kind = "create" THEN agreed ELSE agreed \cup ({o} \X asked[o])
  /\ UNCHANGED <<remote, view, loads, transfers, spent, asked, taken>>

Decline(o) ==
  /\ ops[o].pc = "asking"
  /\ ops' = [ops EXCEPT ![o] = NoOp] /\ asked' = [asked EXCEPT ![o] = {}]
  /\ UNCHANGED <<remote, view, loads, transfers, spent, agreed, taken>>

\* Mutant: an operation takes the directory that is shown when it is sent.
DirShown(o) == path

Dir(o) == ops[o].dir

\* What the user has agreed to is for this request only.
Forgets(who) == agreed' = {a \in agreed : a[1] # who}

Ended(o) ==
  /\ ops' = [ops EXCEPT ![o] = NoOp]
  /\ asked' = [asked EXCEPT ![o] = {}] /\ Forgets(o)

\* The server carries out the operation on one name (fileOp); then load() of the closure
\* reads the directory of the question again.  A rename does not replace its target.
Performed(o, n) ==
  /\ ops[o].pc = "sent" /\ n \in ops[o].names
  /\ \/ /\ ops[o].kind = "delete" /\ n \in remote[Dir(o)]
        /\ remote' = [remote EXCEPT ![Dir(o)] = @ \ {n}]
        /\ Takes(o, <<Dir(o), n>>)
     \/ /\ ops[o].kind = "move" /\ n \in remote[Dir(o)]
        /\ \E d \in Dirs, m \in Names :
             /\ m \notin remote[d]
             /\ remote' = [e \in Dirs |-> (remote[e] \ IF e = Dir(o) THEN {n} ELSE {})
                                            \cup IF e = d THEN {m} ELSE {}]
        /\ Takes(o, <<Dir(o), n>>)
     \/ /\ ops[o].kind = "create" /\ n \notin remote[Dir(o)]
        /\ remote' = [remote EXCEPT ![Dir(o)] = @ \cup {n}]
        /\ UNCHANGED <<agreed, taken>>
  /\ ops' = [ops EXCEPT ![o].pc = "reading", ![o].names = @ \ {n}]
  /\ UNCHANGED <<view, loads, transfers, spent, asked>>

\* The next name, or the end.
GoesOn(o, names) ==
  IF names = {} THEN Ended(o)
  ELSE ops' = [ops EXCEPT ![o].pc = "sent", ![o].names = names] /\ UNCHANGED <<asked, agreed>>

\* load() after an operation shows its directory, even if the user has gone elsewhere.
Reread(o) ==
  /\ ops[o].pc = "reading"
  /\ \/ Shows(ops[o].dir, remote[ops[o].dir])
     \/ UNCHANGED view
  /\ GoesOn(o, ops[o].names)
  /\ UNCHANGED <<remote, loads, transfers, spent, taken>>

\* A refused operation and a lost answer are shown, and the loop goes on.
OpFails(o, n) ==
  /\ ops[o].pc = "sent" /\ n \in ops[o].names
  /\ GoesOn(o, ops[o].names \ {n})
  /\ UNCHANGED <<remote, view, loads, transfers, spent, taken>>

-----------------------------------------------------------------------------
\* upload() and download(), called by the user or by a retry.
Starts(t, kind, d, n, overwrite) ==
  transfers' = [transfers EXCEPT ![t] = [status |-> "uploading", pc |-> "sent", kind |-> kind,
                                         dir |-> d, name |-> n, overwrite |-> overwrite]]

Upload(t, n) ==
  /\ Calls /\ path # None /\ transfers[t] = NoTransfer
  /\ Starts(t, "upload", path, n, FALSE)
  /\ UNCHANGED <<remote, view, loads, ops, outside, history>>

Download(t, n) ==
  /\ Calls /\ n \in entries /\ transfers[t] = NoTransfer
  /\ Starts(t, "download", path, n, FALSE)
  /\ UNCHANGED <<remote, view, loads, ops, outside, history>>

\* The server: the temporary file takes the place of the target, or the target is there
\* and the user has not asked to overwrite it (upload).
Stored(t) ==
  LET T == transfers[t]
      there == T.name \in remote[T.dir]
  IN /\ T.pc = "sent"
     /\ IF T.kind = "upload" /\ (T.overwrite \/ ~there)
          THEN /\ remote' = [remote EXCEPT ![T.dir] = @ \cup {T.name}]
               /\ IF there THEN Takes(t, <<T.dir, T.name>>) ELSE UNCHANGED <<agreed, taken>>
          ELSE UNCHANGED <<remote, agreed, taken>>
     /\ transfers' = [transfers EXCEPT
          ![t].pc = IF T.kind = "upload" /\ there /\ ~T.overwrite THEN "conflict"
                    ELSE IF T.kind = "download" /\ ~there THEN "refused" ELSE "answered"]
     /\ UNCHANGED <<view, loads, ops, spent, asked>>

Finished(t) ==
  /\ transfers[t].pc = "answered"
  /\ transfers' = [transfers EXCEPT ![t].status = "done", ![t].pc = "idle"]
  /\ \/ transfers[t].kind = "upload" /\ Shows(transfers[t].dir, remote[transfers[t].dir])
     \/ UNCHANGED view
  /\ Forgets(t)
  /\ UNCHANGED <<remote, loads, ops, spent, asked, taken>>

\* 409: failed, and a question whether to overwrite the file.
Conflicts(t) ==
  /\ transfers[t].pc = "conflict"
  /\ transfers' = [transfers EXCEPT ![t].status = "failed", ![t].pc = "asking"]
  /\ asked' = [asked EXCEPT ![t] = {<<transfers[t].dir, transfers[t].name>>}]
  /\ UNCHANGED <<remote, view, loads, ops, spent, agreed, taken>>

Overwrite(t) ==
  /\ transfers[t].pc = "asking"
  /\ Starts(t, "upload", transfers[t].dir, transfers[t].name, TRUE)
  /\ agreed' = agreed \cup ({t} \X asked[t]) /\ asked' = [asked EXCEPT ![t] = {}]
  /\ UNCHANGED <<remote, view, loads, ops, spent, taken>>

Keep(t) ==
  /\ transfers[t].pc = "asking"
  /\ transfers' = [transfers EXCEPT ![t].pc = "idle"] /\ asked' = [asked EXCEPT ![t] = {}]
  /\ UNCHANGED <<remote, view, loads, ops, spent, agreed, taken>>

Stops(t, status) ==
  /\ transfers' = [transfers EXCEPT ![t].status = status, ![t].pc = "idle"]
  /\ Forgets(t)
  /\ UNCHANGED <<remote, view, loads, ops, spent, asked, taken>>

TransferFails(t) == transfers[t].pc \in {"sent", "answered", "conflict", "refused"}
                      /\ Stops(t, "failed")

\* The buttons of the list of transfers, here and in the TransferCenter.
Cancel(t) == ~Covered /\ transfers[t].status = "uploading" /\ Stops(t, "cancelled")

Retry(t) ==
  /\ Calls /\ transfers[t].status \in {"failed", "cancelled"} /\ transfers[t].pc = "idle"
  /\ Starts(t, transfers[t].kind, transfers[t].dir, transfers[t].name, FALSE)
  /\ UNCHANGED <<remote, view, loads, ops, outside, history>>

-----------------------------------------------------------------------------
Next ==
  \/ \E d \in Dirs, n \in Names : Outside(d, n)
  \/ \E l \in Loads : (\E d \in Dirs : Navigate(l, d)) \/ Read(l) \/ Listed(l) \/ ListFails(l)
  \/ \E n \in Names : Tick(n)
  \/ \E o \in Ops : \/ DeleteSelected(o) \/ Confirm(o) \/ Decline(o) \/ Reread(o)
                    \/ \E n \in Names : \/ DeleteOne(o, n) \/ Move(o, n) \/ Create(o, n)
                                        \/ Performed(o, n) \/ OpFails(o, n)
  \/ \E t \in Transfers : \/ \E n \in Names : Upload(t, n) \/ Download(t, n)
                          \/ Stored(t) \/ Finished(t) \/ Conflicts(t) \/ Overwrite(t) \/ Keep(t)
                          \/ TransferFails(t) \/ Cancel(t) \/ Retry(t)

Spec == Init /\ [][Next]_vars

-----------------------------------------------------------------------------
TypeOK ==
  /\ remote \in [Dirs -> SUBSET Names]
  /\ path \in Dirs \cup {None} /\ entries \subseteq Names /\ selected \subseteq entries
  /\ loads \in [Loads -> [pc : {"idle", "sent", "read"}, dir : Dirs \cup {None},
                          entries : SUBSET Names]]
  /\ ops \in [Ops -> [pc : {"idle", "asking", "sent", "reading"},
                      kind : {"none", "delete", "move", "create"}, dir : Dirs \cup {None},
                      names : SUBSET Names]]
  /\ transfers \in [Transfers -> [
       status : {"none", "uploading", "done", "failed", "cancelled"},
       pc : {"idle", "sent", "answered", "conflict", "refused", "asking"},
       kind : {"upload", "download"}, dir : Dirs \cup {None}, name : Names \cup {None},
       overwrite : BOOLEAN]]
  /\ outside \in 0..MaxOutside /\ calls \in 0..MaxCalls
  /\ asked \in [Ops \cup Transfers -> SUBSET FileNames]
  /\ agreed \subseteq (Ops \cup Transfers) \X FileNames /\ taken \subseteq FileNames

\* A file is deleted, moved or replaced only if the user has agreed to a question about it
\* in the directory that was shown with the question, whatever the page shows since
\* (Files: op, upload, delete).
TargetsConfirmed == taken = {}
====
