\* A disk whose mount comes and goes in the reports.
CONSTANTS
  Metrics = {}
  Mounts = {disk}
  Never = Never
  Gap = 2
  Online = 1
  Grace = 3
  Hold = 1
  Recovery = 1
  Cooldown = 3
  MaxTime = 6
  Remembered = 3
  MaxChanges = 0
SPECIFICATION Spec
INVARIANTS
  ActiveUntilRecovered
CHECK_DEADLOCK FALSE
