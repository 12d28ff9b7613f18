\* Two installations that may share a registration token, and five secrets, enough
\* for a token, a credential and a rotation and to begin again.
CONSTANTS
  Agents = {a1, a2}
  Secrets = {s1, s2, s3, s4, s5}
  None = None
  MaxAbandoned = 2
SPECIFICATION Spec
SYMMETRY Symmetry
INVARIANTS
  OneHolder
  CurrentIsHolders
PROPERTIES
  KeepsAccess
  ImplementsBinding
CHECK_DEADLOCK FALSE
