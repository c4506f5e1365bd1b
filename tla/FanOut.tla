------------------------------ MODULE FanOut ------------------------------
(***************************************************************************)
(* What the processing loop promises about one event: its notifications    *)
(* are stored one after the other, in the order of its specs and           *)
(* recipients, each at most once, and none before the event is claimed or  *)
(* after it has failed.  EventProcessing implements it for any number of   *)
(* workers.                                                                *)
(***************************************************************************)
EXTENDS Integers

CONSTANTS Event,    \* the events
          Targets   \* Targets[e]: how many notifications e asks for

VARIABLES phase,    \* the status column of each event
          stored    \* stored[e][k]: rows stored for the k-th target of e

vars == <<phase, stored>>

Init == /\ phase = [e \in Event |-> "absent"]
        /\ stored = [e \in Event |-> [k \in 1 .. Targets[e] |-> 0]]

Submit(e) == /\ phase[e] = "absent"
             /\ phase' = [phase EXCEPT ![e] = "accepted"]
             /\ UNCHANGED stored

\* One worker's claim may take several events at once.
Claim(S) == /\ \A e \in S : phase[e] = "accepted"
            /\ phase' = [e \in Event |-> IF e \in S THEN "processing" ELSE phase[e]]
            /\ UNCHANGED stored

Store(e, k) == /\ phase[e] = "processing"
               /\ stored[e][k] = 0
               /\ \A j \in 1 .. k - 1 : stored[e][j] = 1
               /\ stored' = [stored EXCEPT ![e] = [stored[e] EXCEPT ![k] = 1]]
               /\ UNCHANGED phase

Fail(e) == /\ phase[e] = "processing"
           /\ phase' = [phase EXCEPT ![e] = "failed"]
           /\ UNCHANGED stored

Next == \/ \E e \in Event : Submit(e) \/ Fail(e)
        \/ \E S \in SUBSET Event : Claim(S)
        \/ \E e \in Event : \E k \in 1 .. Targets[e] : Store(e, k)

Spec == Init /\ [][Next]_vars
===========================================================================
