\* One worker with its SMTP dialogues and every kind of fault.
SPECIFICATION SmtpFairSpec
CONSTANTS
  Worker = {w1}
  NotifCount = 3
  Email = {1, 3}
  WhatsAppConfigured = TRUE
  MaxAttempts = 2
  BatchSize = 2
  FaultKinds = {"db", "sigterm", "crash"}
  MaxFaults = 2
  Credentials = TRUE
  From <- MCFrom
  DefaultFrom = "noreply"
  NoFrom = ""
\* A worker whose server is silent stops for good, unless it is told to.
CHECK_DEADLOCK FALSE
INVARIANTS DialogueOK OneDialogue DeliveredWasMailed OneMailPerCall
PROPERTIES NoSendAfterSuccess BackoffRespected ImplementsLifecycle CallReturns StopsDespiteSilence
