\* Two accounts with a host each and two sessions; three clicks in the form of a host, one
\* answer lost; two saves and three changes of the AI service; two writes of the monitoring
\* page; two addresses and two keys, one save and one change of a machine; one file and two
\* editors; two directories of two names, one handler and one transfer; two plans, one
\* risky; two terminals; readings three seconds long with a restart.
CONSTANTS
  Parts = {"shell", "form", "settings", "monitor", "trust", "text", "files", "plans",
           "terminals", "rates"}
  ua = ua
  ub = ub
  ha = ha
  hb = hb
  Accounts = {ua, ub}
  Hosts = {ha, hb}
  Owner <- HostOwner
  Saved = {}
  Flows = {f1}
  Loads = {l1}
  Sessions = {s1, s2}
  Nobody = Nobody
  MaxEpoch = 2
  MaxClicks = 3
  MaxLost = 1
  Keys = {k1}
  Slots = {u1, u2}
  MaxSubmits = 2
  MaxChanges = 3
  Values = {default, edited}
  Default = default
  Reads = {r1}
  MaxEdits = 1
  MaxWrites = 2
  Addrs = {a1, a2}
  HostKeys = {h1, h2}
  MaxMoves = 1
  Files = {fa}
  Contents = {c1, c2}
  Editors = {e1, e2}
  MaxSaves = 1
  Dirs = {d1, d2}
  Names = {n1, n2}
  Ops = {o1}
  Transfers = {t1}
  MaxCalls = 3
  Tasks = {p1, p2}
  Risky = {p1}
  MaxLooks = 1
  Panes = {q1, q2}
  Texts = {line, lines, tab}
  Breaking = {lines}
  Control = {lines, tab}
  Nothing = Nothing
  MaxTexts = 3
  Physical = {eth0}
  Virtual = {}
  Lo = lo
  Skew = 1
  Gap = 3
  MaxTime = 3
  MaxBoots = 2
  MaxOutside = 1
  None = None
SPECIFICATION PageSpec
INVARIANTS
  TypesOK
  NothingOfAnother
  ActsForItsUser
  FormsSave
  OnlyWhatWasConfirmed
  RatesAreReal
PROPERTIES
  KeepsEdits
  
CHECK_DEADLOCK FALSE
