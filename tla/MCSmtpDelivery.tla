-------------------------- MODULE MCSmtpDelivery ---------------------------
(* Small instances of SmtpDelivery for TLC. *)
EXTENDS SmtpDelivery
\* The first e-mail names a sender, the others none.
MCFrom == [n \in Email |-> IF n = 1 THEN "billing" ELSE NoFrom]
=============================================================================
