------------------------- MODULE DeliveryLifecycle -------------------------
(***************************************************************************)
(* What the delivery loop promises about one notification, whatever the    *)
(* database calls, the senders and the process do: an independent life     *)
(* cycle with a budget of attempts.  It is the abstract specification that *)
(* NotificationDelivery implements when one worker runs.                   *)
(***************************************************************************)
EXTENDS Integers

CONSTANTS Notif,         \* the notifications
          MaxAttempts    \* send calls a notification may use

VARIABLE life  \* life[n]: status, attempts recorded, send calls made

Init == life = [n \in Notif |-> [status |-> "absent", attempts |-> 0, tries |-> 0]]

\* The event fan-out stores the notification.
Create(n) ==
  /\ life[n].status = "absent"
  /\ life' = [life EXCEPT ![n].status = "pending"]

\* A worker takes the notification up.
Begin(n) ==
  /\ life[n].status = "pending"
  /\ life' = [life EXCEPT ![n].status = "processing"]

\* One send call, possible only while the notification is taken up and has
\* budget left: at most one call is made each time it is taken up.
Try(n) ==
  /\ life[n].status = "processing"
  /\ life[n].tries = life[n].attempts
  /\ life[n].attempts < MaxAttempts
  /\ life' = [life EXCEPT ![n].tries = @ + 1]

\* The call succeeded and that was recorded: the end.
Deliver(n) ==
  /\ life[n].status = "processing"
  /\ life[n].tries = life[n].attempts + 1
  /\ life' = [life EXCEPT ![n].status = "delivered"]

\* The call failed with budget left: pending again, one attempt dearer.
Reschedule(n) ==
  /\ life[n].status = "processing"
  /\ life[n].tries = life[n].attempts + 1
  /\ life[n].tries < MaxAttempts
  /\ life' = [life EXCEPT ![n] =
               [status |-> "pending", attempts |-> life[n].tries, tries |-> life[n].tries]]

\* The call failed and the budget is spent: the end.
GiveUp(n) ==
  /\ life[n].status = "processing"
  /\ life[n].tries = MaxAttempts
  /\ life[n].attempts = MaxAttempts - 1
  /\ life' = [life EXCEPT ![n] =
               [status |-> "failed", attempts |-> life[n].tries, tries |-> life[n].tries]]

Next == \E n \in Notif : \/ Create(n) \/ Begin(n) \/ Try(n)
                         \/ Deliver(n) \/ Reschedule(n) \/ GiveUp(n)

Spec == Init /\ [][Next]_life
=============================================================================
