\* A submission sent twice, one worker and a fault of any kind in each loop.
SPECIFICATION FairSpec
CONSTANTS
  Worker = {w1}
  RequestCount = 2
  Key <- MCKey
  Type <- MCType
  Content <- MCContent
  Targets <- MCTargets
  NotifCount = 3
  MaxAttempts = 2
  BatchSize = 2
  FaultKinds = {"db", "sigterm", "crash"}
  MaxFaults = 1
INVARIANTS RecipientBudget
PROPERTIES ImplementsIntake ImplementsProcessing ImplementsDelivery AcceptedSettlesUnlessFault StopsWhenTold
