---------------------------- MODULE SmtpDelivery ----------------------------
(***************************************************************************)
(* The delivery loop with the SMTP sender opened up (email.SMTPSender).    *)
(* Send runs the dialogue with the mail server in a goroutine of its own   *)
(* and waits for its result or for the cancellation of the context,        *)
(* whichever its select takes; a goroutine it has abandoned talks on.  No  *)
(* step of the dialogue has a timeout: a server may fall silent anywhere,  *)
(* and the goroutine then waits for good.                                  *)
(*                                                                         *)
(* Every step is a step of NotificationDelivery together with one of the   *)
(* dialogue, or of the dialogue alone.  What NotificationDelivery leaves   *)
(* open, whether a failed call was accepted all the same, is settled here  *)
(* by what the server did.                                                 *)
(***************************************************************************)
EXTENDS NotificationDelivery

CONSTANTS
  Credentials,  \* SMTP_USER and SMTP_PASSWORD are set
  From,         \* From[n]: the sender the client asked for, or NoFrom
  DefaultFrom,  \* SMTP_FROM
  NoFrom        \* the empty sender

ASSUME SmtpAssumption ==
  /\ Credentials \in BOOLEAN
  /\ From \in [Email -> STRING]
  /\ DefaultFrom \in STRING
  /\ NoFrom \in STRING

VARIABLES
  talk,    \* talk[w][n]: where the goroutine that sends n is
  mails,   \* history: mails[n], how many times a server accepted n
  mailedAs \* history: pairs of a notification and a sender it was mailed as

smtp == <<talk, mails, mailedAs>>
smtpVars == <<row, pc, batch, canceled, orphan, faults, tries, confirmed, accepted,
              talk, mails, mailedAs>>

Stage == {"dial", "greet", "tls", "auth", "mail", "rcpt", "data", "body", "quit"}

\* What the goroutine has put into the channel: nil, an error, an error
\* although the server had accepted the mail.
Result == {"nil", "error", "lost"}

\* The goroutine waits for a server that no longer answers, which had not, or
\* had, accepted the mail.
Hanging == {"silent", "silentLate"}

Talking(w, n) == talk[w][n] # "none"

---------------------------------------------------------------------------
(* The dialogue *)

\* Once the connection is secured, or could not be.
Secured == IF Credentials THEN "auth" ELSE "mail"

\* What may follow each step: the server agrees, refuses or breaks the
\* connection ("error", or "lost" after the body), or says nothing more.
\* STARTTLS is taken only if the server offers it; connecting alone is
\* bounded, by the operating system.
Script ==
  [dial |-> {"greet", "error"},
   greet |-> {"tls", Secured, "error", "silent"},
   tls |-> {Secured, "error", "silent"},
   auth |-> {"mail", "error", "silent"},
   mail |-> {"rcpt", "error", "silent"},
   rcpt |-> {"data", "error", "silent"},
   data |-> {"body", "error", "silent"},
   body |-> {"quit", "lost", "error", "silent", "silentLate"},
   quit |-> {"nil", "lost", "silentLate"}]

\* Mutants of After: an error of Data is ignored and the dialogue closed; the
\* dialogue is repeated when the answer to the body is lost; a failed dial
\* puts no error into the channel.
AfterUnchecked(stage) == Script[stage] \cup (IF stage = "data" THEN {"quit"} ELSE {})
AfterRepeats(stage) == Script[stage] \cup (IF stage = "body" THEN {"mail"} ELSE {})
AfterForgets(stage) == Script[stage] \cup (IF stage = "dial" THEN {"none"} ELSE {})

After(stage) == Script[stage]

\* The server takes the mail over with its answer to the body, whether or not
\* that answer arrives.
Accepts(stage, next) == stage = "body" /\ next \notin {"error", "silent"}

\* The sender that FindPending finds in a row: neither the INSERT of Create nor
\* the SELECT has one.
SavedFrom(n) == NoFrom

\* The sender of a mail: that of the row or else the default.
Sender(n) == IF SavedFrom(n) # NoFrom THEN SavedFrom(n) ELSE DefaultFrom

\* One step of a goroutine's dialogue.
Converse(w, n) ==
  /\ talk[w][n] \in Stage
  /\ \E next \in After(talk[w][n]) :
       /\ talk' = [talk EXCEPT ![w][n] = next]
       /\ IF Accepts(talk[w][n], next)
          THEN /\ mails' = [mails EXCEPT ![n] = @ + 1]
               /\ mailedAs' = mailedAs \cup {<<n, Sender(n)>>}
          ELSE UNCHANGED <<mails, mailedAs>>
  /\ UNCHANGED vars

---------------------------------------------------------------------------
(* Send *)

SmtpInit ==
  /\ Init
  /\ talk = [w \in Worker |-> [n \in Email |-> "none"]]
  /\ mails = [n \in Email |-> 0]
  /\ mailedAs = {}

\* The goroutine of n is gone, its result taken or thrown away.
Ended(w, n) == talk' = [talk EXCEPT ![w][n] = "none"] /\ UNCHANGED <<mails, mailedAs>>

\* Mutant of Starts: Send does not look at the context before it starts.
StartsCanceled(w, n) ==
  /\ n \in Email
  /\ talk' = [talk EXCEPT ![w][n] = "dial"]

\* Send starts its goroutine for n, unless the context is cancelled.
Starts(w, n) ==
  /\ n \in Email
  /\ ~canceled[w]
  /\ talk' = [talk EXCEPT ![w][n] = "dial"]

\* uc.send is called.
Call(w) ==
  /\ StartSend(w)
  /\ \E n \in Notif : /\ Current(w, n)
                      /\ \/ Starts(w, n)
                         \/ (n \notin Email \/ canceled[w]) /\ UNCHANGED talk
  /\ UNCHANGED <<mails, mailedAs>>

\* The select takes the result of the goroutine: nil ...
TakeNil(w) ==
  /\ SendSucceeds(w)
  /\ \E n \in Email : Current(w, n) /\ talk[w][n] = "nil" /\ Ended(w, n)

\* ... or an error.
TakeError(w) ==
  /\ SendFails(w)
  /\ \E n \in Email :
       /\ Current(w, n)
       /\ talk[w][n] \in {"error", "lost"}
       /\ accepted' = IF talk[w][n] = "lost" THEN accepted \cup {n} ELSE accepted
       /\ Ended(w, n)

\* The WhatsApp sender returns.
WhatsAppReturns(w) ==
  /\ SendSucceeds(w) \/ SendFails(w)
  /\ \E n \in Notif \ Email : Current(w, n)
  /\ UNCHANGED smtp

\* Mutant of Abandon: Send waits for its goroutine all the same.
AbandonLate(w) ==
  /\ SendAbandoned(w)
  /\ \A n \in Email : Current(w, n) => talk[w][n] \in Result
  /\ UNCHANGED smtp

\* The select takes ctx.Done, be there a result or not.
Abandon(w) == SendAbandoned(w) /\ UNCHANGED smtp

\* An abandoned goroutine ends: its result fits into the channel's buffer,
\* and nobody reads it.
AbandonedEnds(w) ==
  /\ OrphanEnds(w)
  /\ \E n \in orphan[w] :
       /\ talk[w][n] \in Result
       /\ orphan' = [orphan EXCEPT ![w] = @ \ {n}]
       /\ accepted' = IF talk[w][n] = "error" THEN accepted ELSE accepted \cup {n}
       /\ Ended(w, n)

\* The process is gone, its connections are broken.
Disconnected(w) ==
  talk' = [talk EXCEPT ![w] = [n \in Email |-> "none"]] /\ UNCHANGED <<mails, mailedAs>>

SmtpLoopStep(w) ==
  \/ Call(w) \/ TakeNil(w) \/ TakeError(w) \/ WhatsAppReturns(w) \/ Abandon(w)
  \/ /\ \/ IdleTick(w) \/ FindPending(w) \/ Mark(w) \/ MarkFails(w)
        \/ Record(w) \/ RecordLost(w) \/ LoopStops(w) \/ Restart(w)
     /\ UNCHANGED smtp
  \/ Exit(w) /\ Disconnected(w)

Environment(w) ==
  \/ AbandonedEnds(w)
  \/ Interrupt(w) /\ UNCHANGED smtp
  \/ Crash(w) /\ Disconnected(w)

SmtpNext ==
  \/ \E n \in Notif : (Create(n) \/ BackoffElapses(n)) /\ UNCHANGED smtp
  \/ \E w \in Worker : SmtpLoopStep(w) \/ Environment(w)
  \/ \E w \in Worker : \E n \in Email : Converse(w, n)

SmtpSpec == SmtpInit /\ [][SmtpNext]_smtpVars

\* The loop and the goroutines are scheduled; a server answers, breaks the
\* connection or falls silent.
SmtpFairSpec ==
  /\ SmtpSpec
  /\ \A w \in Worker : WF_smtpVars(SmtpLoopStep(w))
  /\ \A w \in Worker : \A n \in Email : WF_smtpVars(Converse(w, n))

---------------------------------------------------------------------------
(* Properties *)

InSend(w, n) == pc[w] = "sending" /\ n \in Email /\ Current(w, n)

\* A goroutine talks for n exactly while Send waits for it or after Send has
\* abandoned it: none is lost, none is started by a call that has returned.
DialogueOK ==
  /\ talk \in [Worker -> [Email -> {"none"} \cup Stage \cup Result \cup Hanging]]
  /\ mails \in [Email -> Nat]
  /\ mailedAs \subseteq Email \X STRING
  /\ \A w \in Worker : \A n \in Email : Talking(w, n) <=> InSend(w, n) \/ n \in orphan[w]

\* A worker has one SMTP dialogue at a time: one that was abandoned is the
\* last of its process.
OneDialogue ==
  \A w \in Worker : \A m, n \in Email : Talking(w, m) /\ Talking(w, n) => m = n

\* A notification is marked delivered only if a mail server took it over,
\* with its answer to the body.
DeliveredWasMailed ==
  \A n \in Email : row[n].status = "delivered" => mails[n] > 0

\* A recipient gets one mail at most for each send call, whatever the server
\* answers or leaves unanswered, and whoever stops listening.
OneMailPerCall == \A n \in Email : mails[n] <= tries[n]

\* A send call by e-mail returns unless its server falls silent.
CallReturns ==
  \A w \in Worker : \A n \in Email :
    InSend(w, n) ~> ~InSend(w, n) \/ talk[w][n] \in Hanging

\* A worker that is told to stop does so, its mail server silent or not.
StopsDespiteSilence == \A w \in Worker : canceled[w] ~> pc[w] = "down"

\* The sender the client asked for is used: "If from is empty, the configured
\* default (s.from) is used" (smtp.go:52).
SentAsAsked ==
  \A p \in mailedAs :
    p[2] = IF From[p[1]] # NoFrom THEN From[p[1]] ELSE DefaultFrom
=============================================================================
