\* Two workers (the README's deployment, or a rolling update), with a fault of
\* any kind or, for the liveness, none; WhatsApp is not configured.
SPECIFICATION FairSpec
CONSTANTS
  Worker = {w1, w2}
  NotifCount = 2
  Email = {1}
  WhatsAppConfigured = FALSE
  MaxAttempts = 2
  BatchSize = 2
  FaultKinds = {"db", "sigterm", "crash"}
  MaxFaults = 1
INVARIANTS DeliveredWasAccepted FailedUsedItsBudget
PROPERTIES SettlesForGood
