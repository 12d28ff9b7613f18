\* Two executions of a plan of two commands; two requests to connect for one place;
\* two windows and three hubs in turn; three deliveries and a batch of
\* two; one metric and the offline alert for six ticks, of which three are cooldown; two
\* calls and two grants of one user, two checkout requests and two payment sessions; three
\* samples with counters that start again once; a file of three chunks; two questions and
\* a window with changes.
CONSTANTS
  Parts = {"tasks", "connections", "hub", "deliveries", "alerts",
           "ledger", "paying", "pipeline", "download", "dialogs"}
  Executions = {x1, x2}
  Cancels = {k1, k2}
  Steps = 2
  Nobody = Nobody
  MaxRestarts = 1
  Users = {u1, u2}
  Sessions = {s1, s2}
  Attempts = {a1, a2}
  NoUser = NoUser
  PerUser = 1
  Capacity = 1
  Windows = {w1, w2}
  MaxHubs = 3
  MaxReadings = 2
  MaxDeliveries = 3
  BatchSize = 2
  MaxRetries = 1
  MaxAborts = 1
  MaxChanges = 1
  Metrics = {cpu}
  Mounts = {}
  Never = Never
  Gap = 2
  Online = 1
  Grace = 3
  Duration = 1
  Recovery = 1
  Cooldown = 3
  MaxTime = 6
  Remembered = 2
  Chunks = 3
  Payers = {u1}
  Calls = {c1, c2}
  Events = {e1, e2}
  Amounts = {1, 2}
  Reserves = {1, 2}
  Requests = {r1, r2}
  Payments = {y1, y2}
  MaxInvoices = 2
  MaxExpiries = 1
  Buffered = 2
  Fresh = 0
  Keep = 1
  Window = 2
  Retention = 3
  MaxSamples = 3
  MaxAge = 1
  MaxBytes = 1
  MaxResets = 1
  MaxStarts = 1
  MaxToggles = 0
  Agents = {g1}
  Secrets = {t1, t2, t3}
  MaxAbandoned = 1
  Questions = {q1, q2}
  Editors = {w3}
  MaxEdits = 2
  None = None
SPECIFICATION ServerSpec
INVARIANTS
  TypesOK
  RunsOnce
  PlacesKept
  WindowsServed
  AgainOnlyIfUnsure
  
  CreditsAdd
  TrafficCounted
  DoneIsWhole
  FirstIsShown
PROPERTIES
  EndsStay
  Sustained
CHECK_DEADLOCK FALSE
