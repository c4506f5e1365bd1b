\* One e-mail whose submission names a sender, nothing fails.
SPECIFICATION SmtpSpec
CONSTANTS
  Worker = {w1}
  NotifCount = 1
  Email = {1}
  WhatsAppConfigured = FALSE
  MaxAttempts = 1
  BatchSize = 1
  FaultKinds = {}
  MaxFaults = 0
  Credentials = TRUE
  From <- MCFrom
  DefaultFrom = "noreply"
  NoFrom = ""
CHECK_DEADLOCK FALSE
INVARIANTS SentAsAsked
