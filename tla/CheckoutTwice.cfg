\* No cached session expires: the requests alone end in two subscriptions.
CONSTANTS
  Requests = {r1, r2}
  Sessions = {s1, s2}
  None = None
  MaxInvoices = 1
  MaxExpiries = 0
SPECIFICATION Spec
INVARIANTS
  OneSubscription
CHECK_DEADLOCK FALSE
