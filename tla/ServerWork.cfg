\* Two executions and a cancellation; two windows and two hubs in turn; two deliveries in
\* rounds of one; two samples and a buffer for one.
CONSTANTS
  Parts = {"tasks", "hub", "deliveries", "pipeline"}
  Executions = {x1, x2}
  Cancels = {k1}
  Steps = 2
  Nobody = Nobody
  MaxRestarts = 1
  Users = {u1}
  Sessions = {s1, s2}
  Attempts = {a1, a2}
  NoUser = NoUser
  PerUser = 2
  Capacity = 2
  Windows = {w1, w2}
  MaxHubs = 2
  MaxReadings = 2
  MaxDeliveries = 2
  BatchSize = 1
  MaxRetries = 1
  MaxAborts = 1
  MaxChanges = 1
  Metrics = {cpu}
  Mounts = {}
  Never = Never
  Gap = 2
  Online = 1
  Grace = 3
  Duration = 1
  Recovery = 1
  Cooldown = 3
  MaxTime = 1
  Remembered = 2
  Chunks = 3
  Payers = {u1}
  Calls = {c1}
  Events = {e1}
  Amounts = {1}
  Reserves = {1}
  Requests = {r1}
  Payments = {y1, y2}
  MaxInvoices = 1
  MaxExpiries = 0
  Buffered = 1
  Fresh = 0
  Keep = 1
  Window = 2
  Retention = 3
  MaxSamples = 2
  MaxAge = 3
  MaxBytes = 0
  MaxResets = 0
  MaxStarts = 1
  MaxToggles = 1
  Agents = {g1}
  Secrets = {t1, t2, t3}
  MaxAbandoned = 1
  Questions = {q1, q2}
  Editors = {w3}
  MaxEdits = 2
  None = None
SPECIFICATION WorkFairSpec
 
PROPERTIES
  
  ExecutionEnds
  CollectorEnds
  DeliveriesEnd
CHECK_DEADLOCK FALSE
