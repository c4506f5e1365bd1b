\* One submission, one worker and one graceful shutdown.
SPECIFICATION FairSpec
CONSTANTS
  Worker = {w1}
  RequestCount = 1
  Key <- MCKey
  Type <- MCType
  Content <- MCContent
  Targets <- MCTargets
  NotifCount = 2
  MaxAttempts = 2
  BatchSize = 2
  FaultKinds = {"sigterm"}
  MaxFaults = 1
PROPERTIES AcceptedSettles
