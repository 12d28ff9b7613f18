\* Two jobs in turn on a host, two installations of its agent, one restart.
CONSTANTS
  Hosts = {h1}
  NoHost = NoHost
  MaxJobs = 2
  MaxSessions = 2
  MaxRestarts = 1
SPECIFICATION FairSpec
INVARIANTS
  CompletedByReport
  
  RevokedIsClosed
  SecretsEnd
PROPERTIES
  FinishedStays
  
CHECK_DEADLOCK FALSE
