\* The README's two replicas, no fault at all: more send calls than
\* "Max delivery attempts".
SPECIFICATION Spec
CONSTANTS
  Worker = {w1, w2}
  NotifCount = 1
  Email = {1}
  WhatsAppConfigured = TRUE
  MaxAttempts = 2
  BatchSize = 1
  FaultKinds = {}
  MaxFaults = 0
SYMMETRY Symmetry
INVARIANTS AttemptBudget
