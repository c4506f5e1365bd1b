---------------------------- MODULE MCHttpIntake ----------------------------
(* A small instance of HttpIntake for TLC. *)
EXTENDS HttpIntake

CONSTANTS r1, r2, r3

\* r1 is any submission, r2 repeats its key with another content, r3 is a GET.
MCKey == [r \in Request |-> "k1"]
MCType == [r \in Request |-> "InvoiceIssued"]
MCContent == [r \in Request |-> IF r = r2 THEN "changed" ELSE "original"]

Mail == [channel |-> "email", recipients |-> "addresses", body |-> "text",
         subject |-> "text", from |-> ""]
Group == [Mail EXCEPT !.channel = "whatsapp", !.recipients = "names"]
Good == [method |-> "POST", media |-> "json", key |-> "good", header |-> "uuid",
         body |-> "complete", event |-> "supported", payload |-> "json", specs |-> {Mail}]

\* The specs that differ from a good one in one field.
Specs ==
  UNION {
    {[n EXCEPT !.channel = c] : c \in {"email", "whatsapp", "fax"} \cup Padded}
      \cup {[n EXCEPT !.recipients = s] : s \in {"none", "tooMany", "blank", "names"}}
      \cup {[n EXCEPT !.body = "blank"], [n EXCEPT !.subject = "blank"]}
      \cup {[n EXCEPT !.from = f] : f \in {"text", "address"}} : n \in {Mail, Group}}

\* The requests that differ from a good one in one field.
AnyPost ==
  {[Good EXCEPT !.media = "other"], [Good EXCEPT !.header = "other"],
   [Good EXCEPT !.event = "unsupported"], [Good EXCEPT !.payload = "none"],
   [Good EXCEPT !.specs = {}]}
    \cup {[Good EXCEPT !.key = k] : k \in {"none", "unknown", "revoked", "unscoped"}}
    \cup {[Good EXCEPT !.body = b] : b \in {"unreadable", "incomplete"}}
    \cup {[Good EXCEPT !.specs = {n}] : n \in Specs}
    \cup {[Good EXCEPT !.specs = {Group, n}] : n \in Specs}

Gets == {[Good EXCEPT !.method = "GET"]}
MCAsk == [r \in Request |-> CASE r = r1 -> AnyPost [] r = r3 -> Gets [] OTHER -> {Good}]
=============================================================================
