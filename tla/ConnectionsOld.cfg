\* One connection dialled while its host is changed.
CONSTANTS
  Users = {u1}
  Sessions = {s1}
  Attempts = {a1}
  NoUser = NoUser
  PerUser = 1
  Capacity = 1
  MaxChanges = 1
SPECIFICATION Spec
INVARIANTS
  OldConnectionsClosed
CHECK_DEADLOCK FALSE
