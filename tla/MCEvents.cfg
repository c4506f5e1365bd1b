\* Two workers, every kind of fault, three faults in all; the liveness is of
\* what happens without a fault.
SPECIFICATION FairSpec
CONSTANTS
  Worker = {w1, w2}
  EventCount = 3
  Targets <- MCTargets
  Rejected <- MCRejected
  Unreadable <- MCUnreadable
  BatchSize = 2
  FaultKinds = {"db", "sigterm", "crash"}
  MaxFaults = 3
INVARIANTS NoDuplicateFanOut
PROPERTIES ImplementsFanOut AcceptedIsFannedOut
