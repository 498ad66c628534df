---------------------------- MODULE CatalogAudit ----------------------------
(***************************************************************************)
(* scripts/fw_prune_audit.py beside fw_apply_direct.py: the reverse        *)
(* comparison, live rows against the catalog's names.  It searches the     *)
(* four lists of the firewall one after the other while runs of            *)
(* CatalogApply, editors of the catalog and administrators in the GUI go   *)
(* on, and its exit code speaks of all four.                               *)
(***************************************************************************)
EXTENDS CatalogApply

CONSTANTS
    Strays,      \* rows made in the GUI under no catalog's name: [section, kind]
    Audited      \* bound: the environments audited and administered by hand

Kinds == {"named", "blank", "system"}   \* kind of its name or description
ASSUME StraysAssumption ==
    /\ Strays \subseteq [section : Range(FwSteps), kind : Kinds]
    /\ Audited \subseteq Inventories

VARIABLES
    strays,      \* those on the firewall
    audit,       \* the audit in progress: next list, names, orphans found, unanswered
    verdict,     \* the last audit: exit code, and whether a search failed
    quiet        \* no row and no entry changed since the audit began

auditVars == <<strays, audit, verdict, quiet>>
NoAudit == [next |-> 0, names |-> {}, orphans |-> FALSE, unanswered |-> FALSE]
NoVerdict == [exit |-> "none", unanswered |-> FALSE]

AuditInit ==
    /\ Init
    /\ strays = {}
    /\ audit = NoAudit
    /\ verdict = NoVerdict
    /\ quiet = FALSE

(* excluded_alias, excluded_rule: an alias has a name, a rule may lack one.*)
Excluded(s) == s.kind = "system" \/ (s.kind = "blank" /\ s.section # "ALIAS")

(* The names of the catalog, whatever the state of their entries.          *)
NamesOf(catalog) == {e \in Entries : catalog[e] # "gone"}

AuditBegin ==
    /\ inventory \in Audited
    /\ audit.next = 0
    /\ audit' = [NoAudit EXCEPT !.next = 1, !.names = NamesOf(want)]
    /\ verdict' = NoVerdict
    /\ quiet' = TRUE
    /\ UNCHANGED <<vars, strays>>

(* As if only rows that were once in the catalog were looked at.           *)
OrphansOfCatalog(s) == {e \in Entries \ audit.names : e.section = s /\ rows[e] > 0}

(* audit_section: the rows neither excluded nor named in the catalog.      *)
Orphans(s) ==
    {e \in Entries \ audit.names : e.section = s /\ rows[e] > 0}
    \cup {x \in strays : x.section = s /\ ~Excluded(x)}

(* One search.  api_rows takes any answer that is not the rows (no         *)
(* connection, an error, a refused token) for an empty list.               *)
Search ==
    /\ audit.next \in 1 .. 4
    /\ \/ /\ audit' = [audit EXCEPT !.next = @ + 1,
                          !.orphans = @ \/ Orphans(FwSteps[audit.next]) # {}]
          /\ UNCHANGED faults
       \/ /\ faults < MaxFaults /\ faults' = faults + 1
          /\ audit' = [audit EXCEPT !.next = @ + 1, !.unanswered = TRUE]
    /\ UNCHANGED <<inventory, touched, want, rows, live, up, run, last, passes, strays, verdict, quiet>>

AuditEnd ==
    /\ audit.next = 5
    /\ verdict' = [exit |-> IF audit.orphans THEN "drift" ELSE "clean",
                   unanswered |-> audit.unanswered]
    /\ audit' = NoAudit
    /\ UNCHANGED <<vars, strays, quiet>>

(* A row under no catalog's name appears or goes in the GUI.  (One under a *)
(* catalog's name: Meddle, a step of Next.)                                *)
Administer(s) ==
    /\ inventory \in Audited
    /\ strays' = IF s \in strays THEN strays \ {s} ELSE strays \cup {s}
    /\ quiet' = FALSE
    /\ UNCHANGED <<vars, audit, verdict>>

Apply ==
    /\ Next
    /\ quiet' = (quiet /\ UNCHANGED <<inventory, want, rows>>)
    /\ UNCHANGED <<strays, audit, verdict>>

AuditNext ==
    \/ AuditBegin \/ Search \/ AuditEnd
    \/ \E s \in Strays : Administer(s)
    \/ Apply

AuditSpec == AuditInit /\ [][AuditNext]_<<vars, auditVars>>

------------------------------------------------------------------------------
(* Rows on the firewall that the catalog in git does not name.             *)
Unnamed ==
    {e \in Entries : e.section \in Range(FwSteps) /\ rows[e] > 0 /\ want[e] = "gone"}
    \cup {x \in strays : ~Excluded(x)}

(* An audit whose searches were all answered, and which nothing changed    *)
(* under, exits 0 exactly when no row is unknown to the catalog.           *)
CleanMeansNamed ==
    verdict.exit # "none" /\ ~verdict.unanswered /\ quiet
        => (verdict.exit = "clean" <=> Unnamed = {})

(* The rows of the filter are found again: by a name, or a description.    *)
FilterKeyed == \A e \in Entries : e.section \in Range(FwSteps) => e.keyed

(* What both directions together prove ("so the live firewall can be       *)
(* proven equal"): a run over fw of today's catalog that exited 0, then    *)
(* such an audit, leave every present entry once, every absent one not at  *)
(* all, and nothing else but excluded rows.  The audit looks for names the *)
(* catalog lacks and no further: an entry whose row a hand removed since   *)
(* the run, or doubled, passes both, and is all that does.                 *)
BothMeanEqual ==
    /\ Succeeded("ALIAS") /\ last.want = want
    /\ verdict.exit = "clean" /\ ~verdict.unanswered /\ quiet
    => /\ \A e \in Entries : e.section \in Range(FwSteps) /\ (e \in touched => want[e] = "gone") =>
            rows[e] = IF want[e] = "present" THEN 1 ELSE 0
       /\ \A x \in strays : Excluded(x)

(* "Exit 0 = clean (live == catalog), 1 = orphans found".                  *)
ExitZeroMeansClean == verdict.exit = "clean" /\ quiet => Unnamed = {}
==============================================================================
