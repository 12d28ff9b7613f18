\* Two sessions of a user, each with a request to connect; one checkout and two payment
\* sessions; one installation of the agent and one rotation; a file of three chunks; two
\* questions and a window with changes.
CONSTANTS
  Parts = {"connections", "paying", "enrollment", "download", "dialogs"}
  Executions = {x1, x2}
  Cancels = {k1}
  Steps = 2
  Nobody = Nobody
  MaxRestarts = 1
  Users = {u1}
  Sessions = {s1, s2}
  Attempts = {a1, a2}
  NoUser = NoUser
  PerUser = 2
  Capacity = 2
  Windows = {w1, w2}
  MaxHubs = 2
  MaxReadings = 2
  MaxDeliveries = 2
  BatchSize = 1
  MaxRetries = 1
  MaxAborts = 1
  MaxChanges = 1
  Metrics = {cpu}
  Mounts = {}
  Never = Never
  Gap = 2
  Online = 1
  Grace = 3
  Duration = 1
  Recovery = 1
  Cooldown = 3
  MaxTime = 1
  Remembered = 2
  Chunks = 3
  Payers = {u1}
  Calls = {c1}
  Events = {e1}
  Amounts = {1}
  Reserves = {1}
  Requests = {r1}
  Payments = {y1, y2}
  MaxInvoices = 1
  MaxExpiries = 0
  Buffered = 1
  Fresh = 0
  Keep = 1
  Window = 2
  Retention = 3
  MaxSamples = 2
  MaxAge = 3
  MaxBytes = 0
  MaxResets = 0
  MaxStarts = 1
  MaxToggles = 1
  Agents = {g1}
  Secrets = {t1, t2, t3}
  MaxAbandoned = 1
  Questions = {q1, q2}
  Editors = {w3}
  MaxEdits = 2
  None = None
SPECIFICATION AnswersFairSpec
PROPERTIES
  SessionEnds
  PaidIsCredited
  RotationCompletes
  DownloadEnds
  EveryoneIsAnswered
CHECK_DEADLOCK FALSE
