------------------------ MODULE MCEventProcessing -------------------------
(* Small instances of EventProcessing for TLC. *)
EXTENDS EventProcessing, TLC

\* The first event has a well-formed fan-out of three, the second a refused
\* target in the middle, the third, older than migration 008, none to read.
MCTargets == [e \in Event |-> CASE e = 1 -> 2 [] e = 2 -> 3 [] OTHER -> 0]
MCRejected == {<<2, 2>>}
MCUnreadable == {3} \cap Event

Symmetry == Permutations(Worker)
===========================================================================
