---------------------------- MODULE MCPipeline -----------------------------
(* Small instances of Pipeline for TLC. *)
EXTENDS Pipeline
\* The first two requests are one submission sent twice, with another content
\* the second time; the others are submissions of their own.
MCKey == [r \in Request |-> IF r <= 2 THEN "k1" ELSE "k2"]
MCType == [r \in Request |-> "InvoiceIssued"]
MCContent == [r \in Request |-> IF r = 2 THEN "changed" ELSE "original"]
\* The submissions name two recipients and one.
MCTargets == [r \in Request |-> IF r <= 1 THEN 2 ELSE 1]
=============================================================================
