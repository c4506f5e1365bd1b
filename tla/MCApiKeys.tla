----------------------------- MODULE MCApiKeys -----------------------------
(* A small instance of ApiKeys for TLC. *)
EXTENDS ApiKeys

CONSTANTS root, client, r1, r2, r3, r4, r5

\* root may do everything and creates client, which may only write events.
MCScopes == [k \in Key |-> IF k = root THEN {"admin", "events:write"} ELSE {"events:write"}]

\* r1 creates the client's key, r2 revokes it; r3 and r4 come from the client,
\* r3 to submit an event, r4 to revoke root; r5 is malformed.
MCPresents == [r \in Request |-> IF r \in {r3, r4} THEN client ELSE root]
MCOp == [r \in Request |-> CASE r = r1 -> "create" [] r \in {r2, r4} -> "revoke" [] OTHER -> "serve"]
MCScope == [r \in Request |-> IF r \in {r3, r5} THEN "events:write" ELSE "admin"]
MCTarget == [r \in Request |-> IF r = r4 THEN root ELSE client]
===========================================================================
