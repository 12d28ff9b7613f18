\* Two accounts with a host each, one flow and two sessions: a question of the one account
\* over the page of the other.
CONSTANTS
  ua = ua
  ub = ub
  ha = ha
  hb = hb
  Accounts = {ua, ub}
  Hosts = {ha, hb}
  Owner <- HostOwner
  Saved = {}
  Flows = {f1}
  Loads = {l1}
  Sessions = {s1, s2}
  Nobody = Nobody
  None = None
  MaxEpoch = 2
SPECIFICATION Spec
INVARIANT AsksItsUser
CHECK_DEADLOCK FALSE
