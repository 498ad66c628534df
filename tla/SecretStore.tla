----------------------------- MODULE SecretStore -----------------------------
(***************************************************************************)
(* What roles/vault_secret promises of one KV document, hosts and plays    *)
(* apart: "if the path exists, its value is returned; if absent,           *)
(* vault_secret_init is written once"; a rotation keeps the other fields.  *)
(***************************************************************************)
CONSTANTS
    Hosts,
    Documents,   \* functions: field -> value
    NoDoc        \* nothing is stored at the path

VARIABLES
    doc,         \* what is stored
    draft,       \* it is being created, and nobody was given it
    served       \* host -> what it was given last

vars == <<doc, draft, served>>

(* The filter combine(), and the default({}) of an absent document.        *)
Base(d) == IF d = NoDoc THEN [f \in {} |-> NoDoc] ELSE d
Combine(d, fields) ==
    [f \in DOMAIN d \cup DOMAIN fields |-> IF f \in DOMAIN fields THEN fields[f] ELSE d[f]]

Init ==
    /\ doc \in Documents \cup {NoDoc}
    /\ draft = FALSE
    /\ served = [h \in Hosts |-> NoDoc]

(* Several hosts may create it together; a stored one is never replaced.   *)
Create ==
    /\ doc = NoDoc \/ draft
    /\ doc' \in Documents
    /\ draft' \in BOOLEAN
    /\ UNCHANGED served

Settle == draft' = FALSE /\ UNCHANGED <<doc, served>>

Rotate(fields) ==
    /\ ~draft
    /\ doc' = Combine(Base(doc), fields)
    /\ UNCHANGED <<draft, served>>

Serve(h) ==
    /\ ~draft
    /\ served' = [served EXCEPT ![h] = doc]
    /\ UNCHANGED <<doc, draft>>

Next ==
    \/ Create \/ Settle
    \/ \E fields \in Documents : Rotate(fields)
    \/ \E h \in Hosts : Serve(h)

Spec == Init /\ [][Next]_vars
==============================================================================
