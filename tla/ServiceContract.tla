-------------------------- MODULE ServiceContract --------------------------
(***************************************************************************)
(* scripts/check_service_contract.py: what keeps a service off the         *)
(* contract, and the ratchet over scripts/service_contract_passing.txt.    *)
(* A tree says of a role what the script's patterns look for in its files: *)
(* whether it reads facts or gathers them, the roles it names (its meta    *)
(* dependencies first), what it writes that another role owns, whether its *)
(* containers go through the scaffold; of a playbook, whether it exists,   *)
(* gathers facts, carries data, and its roles.                             *)
(***************************************************************************)
EXTENDS Naturals, Sequences, SequencesExt, TLC

CONSTANTS
    ServiceRoles,   \* roles
    Playbooks,
    Services,       \* platform_services: [name, role, playbook]
    Appliances      \* names of services that are no containers by nature

Owned == {"containers", "compose", "timers", "mailbox", "database"}   \* CHECKS
RoleSet == [reads : BOOLEAN, gathers : BOOLEAN, refs : Seq(ServiceRoles), meta : SUBSET ServiceRoles,
            writes : SUBSET Owned, people : BOOLEAN, contained : BOOLEAN]
PlaybookSet == [exists : BOOLEAN, facts : BOOLEAN, data : BOOLEAN, roles : Seq(ServiceRoles)]

Caches == UNION {[S -> BOOLEAN] : S \in SUBSET ServiceRoles}   \* _facts_cache
ReadsWithoutGathering(roles, r) == roles[r].reads /\ ~roles[r].gathers

(* As if a role named by the play were read and those it names were not.   *)
NeedsFactsItself(roles, role, seen, cache) ==
    [needs |-> ReadsWithoutGathering(roles, role), cache |-> cache]

(* needs_facts: depth first, the answers kept for the rest of the run.  A  *)
(* role met again on the way down counts as needing none.                  *)
NeedsFacts(roles, role, seen, cache) ==
    LET ask[r \in ServiceRoles, above \in SUBSET ServiceRoles, known \in Caches] ==
            IF r \in DOMAIN known \/ r \in above
            THEN [needs |-> r \in DOMAIN known /\ known[r], cache |-> known]
            ELSE LET refs == SelectSeq(roles[r].refs, LAMBDA x : x # r)
                     some[i \in 0 .. Len(refs)] ==
                         IF i = 0 THEN [needs |-> ReadsWithoutGathering(roles, r), cache |-> known]
                         ELSE IF some[i - 1].needs THEN some[i - 1]
                         ELSE ask[refs[i], above \cup {r}, some[i - 1].cache]
                     answer == some[Len(refs)]
                 IN  [answer EXCEPT !.cache = (r :> answer.needs) @@ @]
    IN  ask[role, seen, cache]

(* Of rs, the roles that need facts, asked one after the other.            *)
AskAll(roles, rs, cache) ==
    FoldLeft(LAMBDA acc, r :
                 LET a == NeedsFacts(roles, r, {}, acc.cache)
                 IN  [found |-> acc.found \cup (IF a.needs THEN {r} ELSE {}), cache |-> a.cache],
             [found |-> {}, cache |-> cache], rs)

(* check: the failures of one service, and the answers kept.               *)
Check(roles, plays, svc, cache) ==
    LET p == plays[svc.playbook]
        r == roles[svc.role]
        asked == IF p.exists /\ ~p.facts THEN AskAll(roles, p.roles, cache)
                 ELSE [found |-> {}, cache |-> cache]
        fails == [playbook |-> ~p.exists, facts |-> asked.found # {}, data |-> p.exists /\ p.data,
                  meta |-> r.meta # {}, people |-> r.people,
                  runtime |-> svc.name \notin Appliances /\ ~r.contained]
    IN  [failures |-> {k \in DOMAIN fails : fails[k]} \cup r.writes, cache |-> asked.cache]

(* main: the services in the order of the file share the answers.          *)
Failing(roles, plays, listed) ==
    FoldLeft(LAMBDA acc, svc :
                 LET c == Check(roles, plays, svc, acc.cache)
                 IN  [names |-> acc.names \cup (IF c.failures # {} THEN {svc.name} ELSE {}),
                      cache |-> c.cache],
             [names |-> {}, cache |-> << >>], listed).names

HiddenDependencies(roles) == {r \in ServiceRoles : roles[r].meta # {}}

(* As if the ratchet looked at the services it knows to pass today.        *)
RatchetToday(roles, plays, listed, held) == HiddenDependencies(roles) = {}
(* --ratchet: a listed service that fails, or any meta dependency, refuses *)
(* the change; a service that passes and is not held is only told.         *)
Ratchet(roles, plays, listed, held) ==
    /\ HiddenDependencies(roles) = {}
    /\ held \cap Failing(roles, plays, listed) = {}

(* A role that reads facts and does not gather them is reached from r.     *)
FactsReached(roles, r) ==
    \A S \in SUBSET ServiceRoles :
        r \in S /\ (\A x \in S : \A i \in DOMAIN roles[x].refs : roles[x].refs[i] \in S)
        => \E x \in S : ReadsWithoutGathering(roles, x)
Acyclic(roles) ==
    \A S \in SUBSET ServiceRoles \ {{}} :
        \E x \in S : \A i \in DOMAIN roles[x].refs : roles[x].refs[i] \notin S \ {x}
==============================================================================
