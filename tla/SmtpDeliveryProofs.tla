------------------------ MODULE SmtpDeliveryProofs ------------------------
(***************************************************************************)
(* Machine-checked proofs about SmtpDelivery: it implements                *)
(* NotificationDelivery, so that whatever is proved there holds with the   *)
(* SMTP dialogue opened up; and what the dialogue itself guarantees.       *)
(***************************************************************************)
EXTENDS SmtpDelivery, NotificationDeliveryProofs

---------------------------------------------------------------------------
(* Implementation *)

LEMMA LoopImplements ==
  ASSUME NEW w \in Worker, SmtpLoopStep(w) PROVE LoopStep(w)
BY DEF SmtpLoopStep, LoopStep, Call, TakeNil, TakeError, WhatsAppReturns, Abandon

LEMMA StepImplements == [SmtpNext]_smtpVars => [Next]_vars
<1> SUFFICES ASSUME [SmtpNext]_smtpVars PROVE [Next]_vars
  OBVIOUS
<1>1. ASSUME NEW w \in Worker, SmtpLoopStep(w) PROVE Next
  BY <1>1, LoopImplements DEF Next
<1>2. ASSUME NEW w \in Worker, Environment(w) PROVE Next
  BY <1>2 DEF Environment, AbandonedEnds, Next
<1>3. ASSUME NEW w \in Worker, NEW n \in Email, Converse(w, n) PROVE UNCHANGED vars
  BY <1>3 DEF Converse
<1>4. ASSUME NEW n \in Notif, Create(n) \/ BackoffElapses(n) PROVE Next
  BY <1>4 DEF Next
<1>5. CASE UNCHANGED smtpVars
  BY <1>5 DEF smtpVars, vars
<1> QED BY <1>1, <1>2, <1>3, <1>4, <1>5 DEF SmtpNext

\* The delivery loop with the dialogue does only what the delivery loop with
\* its abstract sender does: its theorems carry over.
THEOREM Implements == SmtpSpec => Spec
<1>1. SmtpInit => Init
  BY DEF SmtpInit
<1> QED BY <1>1, StepImplements, PTL DEF SmtpSpec, Spec

LEMMA TypeInvariant == SmtpSpec => []TypeInv
BY Implements, InitTypeInv, StepTypeInv, PTL DEF Spec

\* The budget of attempts, as the run of one worker checks it.
THEOREM SmtpBudget == ASSUME OneWorker PROVE SmtpSpec => []AttemptBudget
BY Implements, BudgetKept, PTL

\* What a row says of its notification is so with any number of workers that
\* talk to SMTP servers.
THEOREM SmtpRowsHonest == SmtpSpec => [](DeliveredWasAccepted /\ FailedUsedItsBudget)
BY Implements, DeliveredIsReal, FailedIsExhausted, PTL

\* One worker with its dialogues implements the life cycle of every
\* notification, ...
THEOREM SmtpLifecycle == ASSUME OneWorker PROVE SmtpSpec => ImplementsLifecycle
BY Implements, Refinement, PTL

\* ... sends none again that a call has succeeded for, although an abandoned
\* dialogue may go on talking, ...
THEOREM SmtpSuccessIsFinal == ASSUME OneWorker PROVE SmtpSpec => NoSendAfterSuccess
BY Implements, SuccessIsFinal, PTL

\* ... and leaves it alone during its backoff.
THEOREM SmtpBackoffKept == ASSUME OneWorker PROVE SmtpSpec => BackoffRespected
BY Implements, BackoffKept, PTL

---------------------------------------------------------------------------
(* The goroutines *)

\* A goroutine talks for n exactly while it is awaited or abandoned, and an
\* abandoned one is the last.
WorkerInv(w) ==
  /\ \A n \in Email : Talking(w, n) <=> InSend(w, n) \/ n \in orphan[w]
  /\ orphan[w] \subseteq Email
  /\ \A m, n \in orphan[w] : m = n
  /\ orphan[w] # {} => canceled[w] /\ pc[w] # "sending"

\* The stages a goroutine reaches only with a mail accepted.
Late == {"quit", "nil", "lost", "silentLate"}

\* What the goroutines and the histories say of accepted mails is true.
MailInv ==
  /\ \A w \in Worker : \A n \in Email : talk[w][n] \in Late => mails[n] > 0
  /\ \A n \in Email : n \in accepted => mails[n] > 0

TalkTyped ==
  /\ talk \in [Worker -> [Email -> {"none"} \cup Stage \cup Result \cup Hanging]]
  /\ mails \in [Email -> Nat]
  /\ mailedAs \subseteq Email \X STRING

SmtpInv == TalkTyped /\ MailInv /\ \A w \in Worker : WorkerInv(w)

LEMMA InitSmtp == SmtpInit => SmtpInv
BY DEF SmtpInit, Init, SmtpInv, TalkTyped, MailInv, WorkerInv, Talking, InSend, Late

\* A step that leaves the goroutines of a worker alone, and does not have its
\* loop enter or leave a send call.
Quiet(w) ==
  /\ talk'[w] = talk[w]
  /\ orphan'[w] = orphan[w]
  /\ canceled[w] => canceled'[w]
  /\ \/ pc'[w] = pc[w] /\ batch'[w] = batch[w]
     \/ pc[w] # "sending" /\ pc'[w] # "sending"

LEMMA QuietKeeps ==
  ASSUME NEW w \in Worker, WorkerInv(w), Quiet(w) PROVE WorkerInv(w)'
BY DEF WorkerInv, Quiet, Talking, InSend, Current

\* Another worker does not notice.
LEMMA Others ==
  ASSUME SmtpInv, NEW w \in Worker,
         \A v \in Worker \ {w} : Quiet(v),
         WorkerInv(w)'
  PROVE  \A v \in Worker : WorkerInv(v)'
BY QuietKeeps DEF SmtpInv

\* A step that touches no dialogue.
LEMMA SilentStep ==
  ASSUME SmtpInv, UNCHANGED smtp, UNCHANGED accepted, \A v \in Worker : Quiet(v)
  PROVE  SmtpInv'
BY QuietKeeps DEF SmtpInv, TalkTyped, MailInv, smtp

LEMMA StagesDistinct ==
  /\ "none" \notin Stage \cup Result \cup Hanging
  /\ Result \cap Hanging = {}
  /\ \A stage \in Stage : Script[stage] \subseteq Stage \cup Result \cup Hanging
  /\ \A stage \in Stage : \A next \in Script[stage] :
       next \in Late /\ stage \notin Late => stage = "body" /\ Accepts(stage, next)
BY SmtpAssumption DEF Stage, Result, Hanging, Script, Secured, Late, Accepts

LEMMA ConverseKeeps ==
  ASSUME TypeInv, SmtpInv, NEW w \in Worker, NEW n \in Email, Converse(w, n) PROVE SmtpInv'
<1>1. PICK next \in After(talk[w][n]) :
        /\ talk' = [talk EXCEPT ![w][n] = next]
        /\ IF Accepts(talk[w][n], next)
           THEN /\ mails' = [mails EXCEPT ![n] = @ + 1]
                /\ mailedAs' = mailedAs \cup {<<n, Sender(n)>>}
           ELSE UNCHANGED <<mails, mailedAs>>
  BY DEF Converse
<1>2. talk[w][n] \in Stage /\ UNCHANGED vars
  BY DEF Converse
<1>3. next \in Stage \cup Result \cup Hanging
  BY <1>1, <1>2, StagesDistinct DEF After
<1>4. Sender(n) \in STRING
  BY SmtpAssumption DEF Sender, SavedFrom
<1>5. TalkTyped'
  BY <1>1, <1>3, <1>4 DEF SmtpInv, TalkTyped
<1>6. \A m \in Email : mails'[m] >= mails[m]
  BY <1>1 DEF SmtpInv, TalkTyped
<1>7. next \in Late => mails'[n] > 0
  BY <1>1, <1>2, <1>6, StagesDistinct DEF After, SmtpInv, TalkTyped, MailInv
<1>8. MailInv'
  BY <1>1, <1>2, <1>6, <1>7 DEF SmtpInv, TalkTyped, MailInv, vars
<1>9. WorkerInv(w)'
  <2>1. \A m \in Email : Talking(w, m)' <=> Talking(w, m)
    BY <1>1, <1>2, <1>3, StagesDistinct DEF Talking, SmtpInv, TalkTyped
  <2>2. \A m \in Email : InSend(w, m)' <=> InSend(w, m)
    BY <1>2 DEF InSend, Current, vars
  <2> QED BY <1>2, <2>1, <2>2 DEF SmtpInv, WorkerInv, vars
<1>10. \A v \in Worker \ {w} : Quiet(v)
  BY <1>1, <1>2 DEF Quiet, vars, SmtpInv, TalkTyped
<1> QED BY <1>5, <1>8, <1>9, <1>10, Others DEF SmtpInv

---------------------------------------------------------------------------
(* The steps of the loop *)

LEMMA CallKeeps ==
  ASSUME TypeInv, SmtpInv, NEW w \in Worker, Call(w) PROVE SmtpInv'
<1>1. PICK n \in Notif :
        /\ Current(w, n)
        /\ Starts(w, n) \/ ((n \notin Email \/ canceled[w]) /\ UNCHANGED talk)
  BY DEF Call
<1>2. /\ pc[w] = "send"
      /\ pc' = [pc EXCEPT ![w] = IF HasSender(n) /\ ~canceled[w] THEN "sending" ELSE "unsuccessful"]
      /\ UNCHANGED <<batch, canceled, orphan, accepted, mails, mailedAs>>
  BY <1>1, CurrentUnique DEF Call, StartSend
<1>3. \A v \in Worker \ {w} : Quiet(v)
  BY <1>1, <1>2 DEF Quiet, Starts, SmtpInv, TalkTyped, TypeInv, TypeOK
<1>4. TalkTyped' /\ MailInv'
  BY <1>1, <1>2 DEF Starts, SmtpInv, TalkTyped, MailInv, Stage, Late
<1>5. \A m \in Email : InSend(w, m)' <=> m = n /\ ~canceled[w]
  BY <1>1, <1>2, CurrentUnique DEF InSend, HasSender, Current, TypeInv, TypeOK
<1>6. \A m \in Email : Talking(w, m) <=> m \in orphan[w]
  BY <1>2 DEF SmtpInv, WorkerInv, InSend
<1>7. CASE n \in Email /\ ~canceled[w]
  <2>1. talk' = [talk EXCEPT ![w][n] = "dial"] /\ orphan[w] = {}
    BY <1>1, <1>7 DEF Starts, SmtpInv, WorkerInv
  <2>2. WorkerInv(w)'
    BY <1>2, <1>5, <1>6, <1>7, <2>1 DEF WorkerInv, Talking, SmtpInv, TalkTyped
  <2> QED BY <1>3, <1>4, <2>2, Others DEF SmtpInv
<1>8. CASE ~(n \in Email /\ ~canceled[w])
  <2>1. UNCHANGED talk
    BY <1>1, <1>8 DEF Starts
  <2>2. orphan[w] # {} => pc'[w] # "sending"
    BY <1>2 DEF SmtpInv, WorkerInv, TypeInv, TypeOK
  <2>3. WorkerInv(w)'
    BY <1>2, <1>5, <1>6, <1>8, <2>1, <2>2 DEF WorkerInv, Talking, SmtpInv
  <2> QED BY <1>3, <1>4, <2>3, Others DEF SmtpInv
<1> QED BY <1>7, <1>8

\* Send takes the result of the goroutine of n.
LEMMA TakeKeeps ==
  ASSUME TypeInv, SmtpInv, NEW w \in Worker, NEW n \in Email, Current(w, n),
         pc[w] = "sending", Ended(w, n),
         accepted' \in {accepted, accepted \cup {n}},
         accepted' # accepted => talk[w][n] \in Late,
         UNCHANGED <<batch, canceled, orphan>>,
         NEW next \in {"succeeded", "unsuccessful"}, pc' = [pc EXCEPT ![w] = next]
  PROVE  SmtpInv'
<1>1. \A v \in Worker \ {w} : Quiet(v)
  BY DEF Quiet, Ended, SmtpInv, TalkTyped, TypeInv, TypeOK
<1>2. TalkTyped' /\ MailInv'
  BY DEF Ended, SmtpInv, TalkTyped, MailInv, Late
<1>3. orphan[w] = {} /\ pc'[w] # "sending"
  BY DEF SmtpInv, WorkerInv, TypeInv, TypeOK
<1>4. \A m \in Email : Talking(w, m) => m = n
  BY <1>3, CurrentUnique, ConstantsAssumption DEF SmtpInv, WorkerInv, InSend, Current
<1>5. \A m \in Email : ~Talking(w, m)'
  BY <1>4 DEF Talking, Ended, SmtpInv, TalkTyped
<1>6. WorkerInv(w)'
  BY <1>3, <1>5 DEF WorkerInv, InSend
<1> QED BY <1>1, <1>2, <1>6, Others DEF SmtpInv

LEMMA AbandonKeeps ==
  ASSUME TypeInv, SmtpInv, NEW w \in Worker, Abandon(w) PROVE SmtpInv'
<1>1. PICK n \in Email : Current(w, n) /\ orphan' = [orphan EXCEPT ![w] = @ \cup {n}]
  BY DEF Abandon, SendAbandoned
<1>2. /\ pc[w] = "sending" /\ canceled[w]
      /\ pc' = [pc EXCEPT ![w] = "unsuccessful"]
      /\ UNCHANGED <<batch, canceled, accepted, talk, mails, mailedAs>>
  BY DEF Abandon, SendAbandoned, smtp, history
<1>3. orphan[w] = {} /\ orphan'[w] = {n} /\ pc'[w] = "unsuccessful"
  BY <1>1, <1>2 DEF SmtpInv, WorkerInv, TypeInv, TypeOK
<1>4. \A m \in Email : Talking(w, m) <=> m = n
  BY <1>1, <1>2, <1>3, CurrentUnique, ConstantsAssumption
  DEF SmtpInv, WorkerInv, InSend, Current
<1>5. WorkerInv(w)'
  BY <1>2, <1>3, <1>4 DEF WorkerInv, InSend, Talking
<1>6. \A v \in Worker \ {w} : Quiet(v)
  BY <1>1, <1>2 DEF Quiet, TypeInv, TypeOK
<1>7. TalkTyped' /\ MailInv'
  BY <1>2 DEF SmtpInv, TalkTyped, MailInv
<1> QED BY <1>5, <1>6, <1>7, Others DEF SmtpInv

LEMMA EndsKeeps ==
  ASSUME TypeInv, SmtpInv, NEW w \in Worker, AbandonedEnds(w) PROVE SmtpInv'
<1>1. PICK n \in orphan[w] :
        /\ talk[w][n] \in Result
        /\ orphan' = [orphan EXCEPT ![w] = @ \ {n}]
        /\ accepted' = IF talk[w][n] = "error" THEN accepted ELSE accepted \cup {n}
        /\ Ended(w, n)
  BY DEF AbandonedEnds
<1>2. UNCHANGED <<pc, batch, canceled>>
  BY DEF AbandonedEnds, OrphanEnds
<1>3. n \in Email /\ orphan[w] = {n} /\ orphan'[w] = {} /\ pc[w] # "sending"
  BY <1>1 DEF SmtpInv, WorkerInv, TypeInv, TypeOK
<1>4. TalkTyped' /\ MailInv'
  BY <1>1, <1>3 DEF Ended, SmtpInv, TalkTyped, MailInv, Late, Result
<1>5. \A m \in Email : ~Talking(w, m)'
  BY <1>1, <1>3 DEF Talking, Ended, SmtpInv, TalkTyped, WorkerInv, InSend
<1>6. WorkerInv(w)'
  BY <1>2, <1>3, <1>5 DEF WorkerInv, InSend
<1>7. \A v \in Worker \ {w} : Quiet(v)
  BY <1>1, <1>2 DEF Quiet, Ended, SmtpInv, TalkTyped, TypeInv, TypeOK
<1> QED BY <1>4, <1>6, <1>7, Others DEF SmtpInv

\* The process is gone, and its goroutines.
LEMMA GoneKeeps ==
  ASSUME TypeInv, SmtpInv, NEW w \in Worker, Gone(w), Disconnected(w), UNCHANGED accepted
  PROVE  SmtpInv'
<1>1. TalkTyped' /\ MailInv'
  BY DEF Disconnected, SmtpInv, TalkTyped, MailInv, Late
<1>2. WorkerInv(w)'
  BY DEF Disconnected, Gone, WorkerInv, Talking, InSend, SmtpInv, TalkTyped, TypeInv, TypeOK
<1>3. \A v \in Worker \ {w} : Quiet(v)
  BY DEF Quiet, Disconnected, Gone, SmtpInv, TalkTyped, TypeInv, TypeOK
<1> QED BY <1>1, <1>2, <1>3, Others DEF SmtpInv

LEMMA StepSmtp == TypeInv /\ SmtpInv /\ [SmtpNext]_smtpVars => SmtpInv'
<1> SUFFICES ASSUME TypeInv, SmtpInv, [SmtpNext]_smtpVars PROVE SmtpInv'
  OBVIOUS
<1>1. ASSUME NEW w \in Worker, TakeNil(w) PROVE SmtpInv'
  <2>1. PICK n \in Email : Current(w, n) /\ talk[w][n] = "nil" /\ Ended(w, n)
    BY <1>1 DEF TakeNil
  <2>2. n \in Notif
    BY <2>1, ConstantsAssumption
  <2>3. PICK m \in Notif : Current(w, m) /\ accepted' = accepted \cup {m}
    BY <1>1 DEF TakeNil, SendSucceeds
  <2>4. m = n
    BY <2>1, <2>2, <2>3, CurrentUnique DEF Current
  <2> QED BY <1>1, <2>1, <2>3, <2>4, TakeKeeps DEF TakeNil, SendSucceeds, Late
<1>2. ASSUME NEW w \in Worker, TakeError(w) PROVE SmtpInv'
  <2>1. PICK n \in Email :
          /\ Current(w, n)
          /\ accepted' = IF talk[w][n] = "lost" THEN accepted \cup {n} ELSE accepted
          /\ Ended(w, n)
    BY <1>2 DEF TakeError
  <2> QED BY <1>2, <2>1, TakeKeeps DEF TakeError, SendFails, Late
<1>3. ASSUME NEW w \in Worker, WhatsAppReturns(w) PROVE SmtpInv'
  <2>1. PICK n \in Notif \ Email : Current(w, n)
    BY <1>3 DEF WhatsAppReturns
  <2>2. \A m \in Email : ~Current(w, m)
    BY <2>1, CurrentUnique DEF Current
  <2>3. /\ pc[w] = "sending" /\ pc'[w] \in {"succeeded", "unsuccessful"}
        /\ \A v \in Worker \ {w} : pc'[v] = pc[v]
        /\ UNCHANGED <<batch, canceled, orphan, talk, mails, mailedAs>>
        /\ accepted' \in {accepted, accepted \cup {n}}
    <3>1. /\ pc[w] = "sending"
          /\ \E m \in Notif : Current(w, m) /\ accepted' \in {accepted, accepted \cup {m}}
          /\ \E next \in {"succeeded", "unsuccessful"} : pc' = [pc EXCEPT ![w] = next]
          /\ UNCHANGED <<batch, canceled, orphan, talk, mails, mailedAs>>
      BY <1>3 DEF WhatsAppReturns, SendSucceeds, SendFails, smtp
    <3> QED BY <2>1, <3>1, CurrentUnique DEF Current, TypeInv, TypeOK
  <2>4. WorkerInv(w)'
    BY <2>2, <2>3 DEF SmtpInv, WorkerInv, Talking, InSend
  <2>5. \A v \in Worker \ {w} : Quiet(v)
    BY <2>3 DEF Quiet
  <2>6. TalkTyped' /\ MailInv'
    BY <2>1, <2>3 DEF SmtpInv, TalkTyped, MailInv
  <2> QED BY <2>4, <2>5, <2>6, Others DEF SmtpInv
<1>4. ASSUME NEW w \in Worker, UNCHANGED smtp,
             IdleTick(w) \/ FindPending(w) \/ Mark(w) \/ MarkFails(w) \/ Record(w)
             \/ RecordLost(w) \/ LoopStops(w) \/ Restart(w)
      PROVE  SmtpInv'
  <2>1. UNCHANGED <<accepted, canceled, orphan>>
    BY <1>4 DEF IdleTick, FindPending, Mark, MarkFails, Record, RecordLost, LoopStops, Restart,
       vars, history
  <2>2. \/ UNCHANGED <<pc, batch>>
        \/ /\ pc[w] # "sending" /\ pc'[w] # "sending"
           /\ \A v \in Worker \ {w} : pc'[v] = pc[v] /\ batch'[v] = batch[v]
    <3>1. CASE \E n \in Notif : MoveOn(w, n) /\ pc[w] # "sending"
      BY <3>1 DEF MoveOn, TypeInv, TypeOK
    <3>2. CASE IdleTick(w) \/ FindPending(w) \/ Mark(w) \/ LoopStops(w) \/ Restart(w)
      BY <3>2 DEF IdleTick, FindPending, Mark, LoopStops, Restart, vars, TypeInv, TypeOK
    <3> QED BY <1>4, <3>1, <3>2 DEF MarkFails, Record, RecordLost
  <2>3. \A v \in Worker : Quiet(v)
    BY <1>4, <2>1, <2>2 DEF Quiet, smtp
  <2> QED BY <1>4, <2>1, <2>3, SilentStep
<1>5. ASSUME NEW w \in Worker, Exit(w) \/ Crash(w), Disconnected(w) PROVE SmtpInv'
  BY <1>5, GoneKeeps DEF Exit, Crash, history
<1>6. ASSUME NEW w \in Worker, Interrupt(w), UNCHANGED smtp PROVE SmtpInv'
  <2>1. \A v \in Worker : Quiet(v)
    BY <1>6 DEF Interrupt, Quiet, smtp, TypeInv, TypeOK
  <2> QED BY <1>6, <2>1, SilentStep DEF Interrupt, history
<1>7. ASSUME NEW n \in Notif, Create(n) \/ BackoffElapses(n), UNCHANGED smtp PROVE SmtpInv'
  <2>1. \A v \in Worker : Quiet(v)
    BY <1>7 DEF Create, BackoffElapses, Quiet, smtp
  <2> QED BY <1>7, <2>1, SilentStep DEF Create, BackoffElapses, history
<1>8. CASE UNCHANGED smtpVars
  <2>1. UNCHANGED smtp /\ UNCHANGED accepted /\ \A v \in Worker : Quiet(v)
    BY <1>8 DEF smtpVars, smtp, Quiet
  <2> QED BY <2>1, SilentStep
<1>9. ASSUME NEW w \in Worker, SmtpLoopStep(w) PROVE SmtpInv'
  BY <1>9, <1>1, <1>2, <1>3, <1>4, <1>5, CallKeeps, AbandonKeeps DEF SmtpLoopStep
<1>10. ASSUME NEW w \in Worker, Environment(w) PROVE SmtpInv'
  BY <1>10, <1>5, <1>6, EndsKeeps DEF Environment
<1> QED BY <1>7, <1>8, <1>9, <1>10, ConverseKeeps DEF SmtpNext

LEMMA SmtpInvariant == SmtpSpec => [](TypeInv /\ SmtpInv)
BY TypeInvariant, InitSmtp, StepSmtp, PTL DEF SmtpSpec

---------------------------------------------------------------------------
(* One mail for each call *)

\* The stages before the server takes the mail over.
Early == Stage \ {"quit"}

\* A goroutine that may still mail does so for a call not mailed for yet.
CallInv ==
  \A n \in Email :
    /\ mails[n] <= tries[n]
    /\ \A w \in Worker : talk[w][n] \in Early => mails[n] < tries[n]

LEMMA InitCall == SmtpInit => CallInv
BY ConstantsAssumption DEF SmtpInit, Init, CallInv, Early, Stage

LEMMA StepCall ==
  ASSUME OneWorker, TypeInv, SmtpInv, CallInv, [SmtpNext]_smtpVars PROVE CallInv'
<1>1. \A n \in Notif : tries[n] \in Nat /\ tries'[n] \in Nat /\ tries'[n] >= tries[n]
  BY StepImplements, StepTypeInv, HistoryGrows DEF Grows, TypeInv, TypeOK
\* No goroutine starts, none mails.
<1>2. ASSUME UNCHANGED mails,
             \A w \in Worker : \A n \in Email : talk'[w][n] \in {talk[w][n], "none"}
      PROVE  CallInv'
  <2>1. "none" \notin Early
    BY DEF Early, Stage
  <2> QED BY <1>1, <1>2, <2>1, ConstantsAssumption DEF CallInv, SmtpInv, TalkTyped
<1>3. ASSUME NEW w \in Worker, NEW n \in Email, Ended(w, n) PROVE CallInv'
  BY <1>2, <1>3 DEF Ended, SmtpInv, TalkTyped
<1>4. ASSUME NEW w \in Worker, Disconnected(w) PROVE CallInv'
  BY <1>2, <1>4 DEF Disconnected, SmtpInv, TalkTyped
<1>5. ASSUME UNCHANGED smtp PROVE CallInv'
  BY <1>2, <1>5 DEF smtp
<1>6. ASSUME NEW w \in Worker, Call(w) PROVE CallInv'
  <2>1. PICK n \in Notif :
          /\ Current(w, n)
          /\ Starts(w, n) \/ ((n \notin Email \/ canceled[w]) /\ UNCHANGED talk)
    BY <1>6 DEF Call
  <2>2. tries' = [tries EXCEPT ![n] = @ + 1] /\ UNCHANGED mails
    BY <1>6, <2>1, CurrentUnique DEF Call, StartSend, Current
  <2>3. CASE UNCHANGED talk
    BY <1>2, <2>2, <2>3
  <2>4. CASE n \in Email /\ talk' = [talk EXCEPT ![w][n] = "dial"]
    <3>1. mails'[n] < tries'[n]
      BY <2>1, <2>2, <2>4 DEF CallInv, SmtpInv, TalkTyped, TypeInv, TypeOK
    <3>2. ASSUME NEW m \in Email, m # n
          PROVE  /\ mails'[m] = mails[m] /\ tries'[m] = tries[m]
                 /\ \A v \in Worker : talk'[v][m] = talk[v][m]
      BY <2>2, <2>4, <3>2, ConstantsAssumption DEF SmtpInv, TalkTyped, TypeInv, TypeOK
    <3>3. mails'[n] \in Nat /\ tries'[n] \in Nat
      BY <1>1, <2>1, <2>2, <2>4 DEF SmtpInv, TalkTyped
    <3> QED BY <3>1, <3>2, <3>3 DEF CallInv
  <2> QED BY <2>1, <2>3, <2>4 DEF Starts
<1>7. ASSUME NEW w \in Worker, NEW n \in Email, Converse(w, n) PROVE CallInv'
  <2>1. PICK next \in Script[talk[w][n]] :
          /\ talk' = [talk EXCEPT ![w][n] = next]
          /\ mails' = IF Accepts(talk[w][n], next) THEN [mails EXCEPT ![n] = @ + 1] ELSE mails
    BY <1>7 DEF Converse, After
  <2>2. talk[w][n] \in Stage /\ UNCHANGED tries
    BY <1>7 DEF Converse, vars
  <2>3. /\ next \in Early => talk[w][n] \in Early /\ ~Accepts(talk[w][n], next)
        /\ Accepts(talk[w][n], next) => talk[w][n] \in Early
    BY <2>1, <2>2, SmtpAssumption DEF Script, Secured, Stage, Early, Accepts
  <2>4. ASSUME NEW m \in Email, m # n
        PROVE  /\ mails'[m] = mails[m]
               /\ \A v \in Worker : talk'[v][m] = talk[v][m]
    BY <2>1, <2>4 DEF SmtpInv, TalkTyped
  <2>5. mails'[n] <= tries[n]
    BY <1>1, <2>1, <2>3, ConstantsAssumption DEF CallInv, SmtpInv, TalkTyped
  <2>6. \A v \in Worker : talk'[v][n] \in Early => mails'[n] < tries[n]
    BY <2>1, <2>3 DEF CallInv, SmtpInv, TalkTyped, OneWorker
  <2> QED BY <2>2, <2>4, <2>5, <2>6 DEF CallInv
<1> QED
  BY <1>3, <1>4, <1>5, <1>6, <1>7, ConstantsAssumption
  DEF SmtpNext, SmtpLoopStep, Environment, TakeNil, TakeError, WhatsAppReturns, Abandon,
      AbandonedEnds, SmtpInv, WorkerInv, smtpVars, smtp

---------------------------------------------------------------------------
(* The theorems *)

\* No goroutine is lost or left over, for any number of workers.
THEOREM NoneLost == SmtpSpec => []DialogueOK
<1>1. SmtpInv => DialogueOK
  BY DEF SmtpInv, TalkTyped, WorkerInv, DialogueOK
<1> QED BY <1>1, SmtpInvariant, PTL

\* A worker has one dialogue at a time.
THEOREM AtMostOne == SmtpSpec => []OneDialogue
<1>1. ASSUME TypeInv, SmtpInv, NEW w \in Worker, NEW m \in Email, NEW n \in Email,
             Talking(w, m), Talking(w, n)
      PROVE  m = n
  <2>1. CASE orphan[w] = {}
    BY <1>1, <2>1, CurrentUnique, ConstantsAssumption DEF SmtpInv, WorkerInv, InSend, Current
  <2>2. CASE orphan[w] # {}
    BY <1>1, <2>2 DEF SmtpInv, WorkerInv, InSend
  <2> QED BY <2>1, <2>2
<1>2. TypeInv /\ SmtpInv => OneDialogue
  BY <1>1 DEF OneDialogue
<1> QED BY <1>2, SmtpInvariant, PTL

\* The table never says delivered of a mail no server took over.
THEOREM MailIsReal == SmtpSpec => []DeliveredWasMailed
<1>1. SmtpInv /\ DeliveredWasAccepted => DeliveredWasMailed
  BY ConstantsAssumption DEF SmtpInv, MailInv, DeliveredWasAccepted, DeliveredWasMailed
<1> QED BY <1>1, SmtpInvariant, Implements, DeliveredIsReal, PTL

\* One worker puts one mail at most into the world for each send call.
THEOREM OneMail == ASSUME OneWorker PROVE SmtpSpec => []OneMailPerCall
<1>1. TypeInv /\ SmtpInv /\ CallInv /\ [SmtpNext]_smtpVars => CallInv'
  BY StepCall
<1>2. CallInv => OneMailPerCall
  BY DEF CallInv, OneMailPerCall
<1> QED BY <1>1, <1>2, InitCall, SmtpInvariant, PTL DEF SmtpSpec
===========================================================================
