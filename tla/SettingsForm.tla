---- MODULE SettingsForm ----
(***************************************************************************)
(* The form of the AI service (App.tsx: SettingsPanel) and the server's    *)
(* part of it (ai.go: aiSettingsGet, aiSettingsSave).  The key itself is   *)
(* never sent back: the form only knows that there is one.  Nothing keeps  *)
(* the user from saving again while a save is under way, and the server    *)
(* reads the key it is to keep before it writes it back.                   *)
(***************************************************************************)
EXTENDS Naturals

CONSTANTS
  Keys, NoKey,
  Slots,        \* requests that save at the same time
  MaxSaves, MaxEdits

VARIABLES
  data,         \* of the server: the source, and whether URL and model are there
  key,          \* of the server: ai_settings.secret
  panel,        \* a, the state of the form
  load,         \* GET /ai/settings of the open form, with what the server has read
  puts,         \* the requests that save
  saves, edits,
  due,          \* the key that the saves, in the order of their writes, leave
  overtaken,    \* a save has written back a key that had changed since it read it
  untold        \* an answer was lost, or a request was sent while another was under way

vars == <<data, key, panel, load, puts, saves, edits, due, overtaken, untold>>

Sources == {"byok", "subscription"}
Data    == [source : Sources, filled : BOOLEAN]
NoLoad  == [step |-> "none", data |-> [source |-> "byok", filled |-> FALSE], has |-> FALSE]
NoPut   == [step |-> "none", data |-> NoLoad.data, typed |-> NoKey, clear |-> FALSE,
            key |-> NoKey, here |-> FALSE]
Empty   == [open |-> FALSE, data |-> NoLoad.data, typed |-> NoKey, clear |-> FALSE,
            has |-> FALSE]

Assumptions == NoKey \notin Keys /\ MaxSaves \in Nat /\ MaxEdits \in Nat

Free(s)  == puts[s].step = "none"
AllQuiet == load.step = "none" /\ \A s \in Slots : Free(s)

-----------------------------------------------------------------------------
Init ==
  /\ key \in Keys \cup {NoKey}
  /\ data \in [source : Sources, filled : {key # NoKey}]
  /\ panel = Empty /\ load = NoLoad /\ puts = [s \in Slots |-> NoPut]
  /\ saves = 0 /\ edits = 0 /\ due = key /\ overtaken = FALSE /\ untold = FALSE

\* The panel opens as it was first rendered and reads the settings.
Open ==
  /\ ~panel.open
  /\ panel' = [Empty EXCEPT !.open = TRUE] /\ load' = [NoLoad EXCEPT !.step = "sent"]
  /\ untold' = ~AllQuiet
  /\ UNCHANGED <<data, key, puts, saves, edits, due, overtaken>>

\* It goes away, also because the account is left; its requests are carried out all the same.
Close ==
  /\ panel.open
  /\ panel' = Empty /\ load' = NoLoad
  /\ puts' = [s \in Slots |-> [puts[s] EXCEPT !.here = FALSE]]
  /\ UNCHANGED <<data, key, saves, edits, due, overtaken, untold>>

Read ==
  /\ load.step = "sent"
  /\ load' = [step |-> "read", data |-> data, has |-> key # NoKey]
  /\ UNCHANGED <<data, key, panel, puts, saves, edits, due, overtaken, untold>>

\* setA: an answer takes the place of everything in the form, what was typed included.
Fills(d, has) == panel' = [open |-> TRUE, data |-> d, typed |-> NoKey, clear |-> FALSE, has |-> has]

Loaded ==
  /\ load.step = "read"
  /\ Fills(load.data, load.has) /\ load' = NoLoad
  /\ UNCHANGED <<data, key, puts, saves, edits, due, overtaken, untold>>

LoadFails ==
  /\ load.step # "none" /\ load' = NoLoad /\ untold' = TRUE
  /\ UNCHANGED <<data, key, panel, puts, saves, edits, due, overtaken>>

\* The fields of the form; those of the key are there for the user's own service only.
Edit ==
  /\ panel.open /\ edits < MaxEdits /\ edits' = edits + 1
  /\ \/ \E s \in Sources : panel' = [panel EXCEPT !.data.source = s]
     \/ /\ panel.data.source = "byok"
        /\ \/ panel' = [panel EXCEPT !.data.filled = TRUE]
           \/ \E k \in Keys \cup {NoKey} : panel' = [panel EXCEPT !.typed = k]
           \/ panel' = [panel EXCEPT !.clear = ~@]
  /\ UNCHANGED <<data, key, load, puts, saves, due, overtaken, untold>>

\* The submit of the form, with its required fields.
Save(s) ==
  /\ panel.open /\ Free(s) /\ saves < MaxSaves
  /\ panel.data.source = "byok" => panel.data.filled
  /\ puts' = [puts EXCEPT ![s] = [step |-> "sent", data |-> panel.data, typed |-> panel.typed,
                                  clear |-> panel.clear, key |-> NoKey, here |-> TRUE]]
  /\ saves' = saves + 1 /\ untold' = (untold \/ ~AllQuiet)
  /\ UNCHANGED <<data, key, panel, load, edits, due, overtaken>>

-----------------------------------------------------------------------------
\* aiSettingsSave reads the key, and in another statement writes all settings.
LoadAI(s) ==
  /\ puts[s].step = "sent"
  /\ puts' = [puts EXCEPT ![s].step = "read", ![s].key = key]
  /\ UNCHANGED <<data, key, panel, load, saves, edits, due, overtaken, untold>>

Chosen(p, old) == IF p.typed # NoKey THEN p.typed ELSE IF p.clear THEN NoKey ELSE old

Write(s) ==
  LET p == puts[s] IN
  /\ p.step = "read"
  /\ data' = p.data /\ key' = Chosen(p, p.key)
  /\ due' = Chosen(p, due)
  /\ overtaken' = (p.typed = NoKey /\ ~p.clear /\ (overtaken \/ p.key # key))
  /\ puts' = [puts EXCEPT ![s].step = "written", ![s].key = key']
  /\ UNCHANGED <<panel, load, saves, edits, untold>>

SaveAnswered(s) ==
  /\ puts[s].step = "written"
  /\ IF puts[s].here THEN Fills(puts[s].data, puts[s].key # NoKey) ELSE UNCHANGED panel
  /\ puts' = [puts EXCEPT ![s] = NoPut]
  /\ UNCHANGED <<data, key, load, saves, edits, due, overtaken, untold>>

\* Refused, or the answer of what was done is lost; what was typed stays in the form.
SaveFails(s) ==
  /\ puts[s].step # "none"
  /\ puts' = [puts EXCEPT ![s] = NoPut]
  /\ untold' = (untold \/ puts[s].step = "written")
  /\ UNCHANGED <<data, key, panel, load, saves, edits, due, overtaken>>

Next ==
  \/ Open \/ Close \/ Read \/ Loaded \/ LoadFails \/ Edit
  \/ \E s \in Slots : Save(s) \/ LoadAI(s) \/ Write(s) \/ SaveAnswered(s) \/ SaveFails(s)

Spec == Init /\ [][Next]_vars

-----------------------------------------------------------------------------
TypeOK ==
  /\ data \in Data /\ key \in Keys \cup {NoKey} /\ due \in Keys \cup {NoKey}
  /\ panel \in [open : BOOLEAN, data : Data, typed : Keys \cup {NoKey}, clear : BOOLEAN,
                has : BOOLEAN]
  /\ load \in [step : {"none", "sent", "read"}, data : Data, has : BOOLEAN]
  /\ puts \in [Slots -> [step : {"none", "sent", "read", "written"}, data : Data,
                         typed : Keys \cup {NoKey}, clear : BOOLEAN,
                         key : Keys \cup {NoKey}, here : BOOLEAN]]
  /\ saves \in 0..MaxSaves /\ edits \in 0..MaxEdits /\ overtaken \in BOOLEAN /\ untold \in BOOLEAN

\* The server has the key that was last typed and saved, or none once its deletion was
\* saved: an empty field keeps it, whatever is saved in between.  Only a save that wrote
\* between the two statements of another is undone by it - a deleted key then comes back
\* (ai.go: aiSettingsSave).  And the form says that there is a key if there is one, unless
\* an answer was lost or two requests were under way (App: SettingsPanel).
KeyKept ==
  /\ key = due \/ overtaken
  /\ panel.open /\ AllQuiet /\ ~untold => panel.has = (key # NoKey)
====
