--------------------------- MODULE ImpactedPlays ---------------------------
(***************************************************************************)
(* scripts/impacted_plays.py: the plays to dry-run for a change.  A role   *)
(* counts if it reaches a changed role through the roles its files name; a *)
(* file under playbooks/ is printed if it changed or names such a role.    *)
(* The closure is computed frontier by frontier, as the script does.       *)
(***************************************************************************)
CONSTANTS
    Roles,       \* directories under roles/
    Plays,       \* files under playbooks/, task files included
    Archived,    \* those with _archive in their path
    Trees,       \* bound: the trees inspected
    Diffs        \* bound: the changes inspected

TreeSet == [refs : [Roles -> SUBSET Roles],      \* role -> roles its files name
            uses : [Plays -> SUBSET Roles],      \* file -> roles it names
            imports : [Plays -> SUBSET Plays]]   \* file -> playbooks, task files
(* Roles and files that changed: in the range of commits, moved away in    *)
(* it (git names the new place only), in the working tree.                 *)
DiffSet == [committed : SUBSET (Roles \cup Plays), moved : SUBSET (Roles \cup Plays),
            dirty : SUBSET (Roles \cup Plays)]

ASSUME InspectAssumption ==
    /\ Archived \subseteq Plays
    /\ Trees \subseteq TreeSet
    /\ Diffs \subseteq DiffSet

VARIABLES
    tree,        \* the working tree
    diff,        \* what changed in it
    closure, frontier,
    impacted,    \* the plays printed
    phase        \* "idle", "closing", "done"

inspection == <<tree, diff, closure, frontier, impacted, phase>>

NoTree == [refs |-> [r \in Roles |-> {}], uses |-> [p \in Plays |-> {}],
           imports |-> [p \in Plays |-> {}]]
NoDiff == [committed |-> {}, moved |-> {}, dirty |-> {}]

InspectInit ==
    /\ tree = NoTree /\ diff = NoDiff /\ closure = {} /\ frontier = {}
    /\ impacted = {} /\ phase = "idle"

(* changed_files: the working tree is looked at if no commit changed a     *)
(* file.                                                                   *)
ChangedFiles(d) == IF d.committed # {} THEN d.committed ELSE d.dirty

(* main, up to the closure: the changed files give the seed.               *)
Inspect(t, d) ==
    /\ phase = "idle" /\ ChangedFiles(d) # {}
    /\ tree' = t
    /\ diff' = d
    /\ closure' = ChangedFiles(d) \cap Roles
    /\ frontier' = ChangedFiles(d) \cap Roles
    /\ phase' = "closing"
    /\ UNCHANGED impacted

(* As if a role already found were taken again.                            *)
ParentsAgain(rs) == {p \in Roles : tree.refs[p] \cap rs # {}}
(* The roles that name one of rs (reverse) and are not in the closure.     *)
Parents(rs) == {p \in Roles \ closure : tree.refs[p] \cap rs # {}}

(* As if the loop ended with the first round.                              *)
RoundOnce ==
    /\ phase = "closing" /\ frontier # {}
    /\ closure' = closure \cup Parents(frontier)
    /\ frontier' = {}
    /\ UNCHANGED <<tree, diff, impacted, phase>>

Round ==
    /\ phase = "closing" /\ frontier # {}
    /\ closure' = closure \cup Parents(frontier)
    /\ frontier' = Parents(frontier)
    /\ UNCHANGED <<tree, diff, impacted, phase>>

(* As if a file that changed had to name a changed role as well.           *)
PrintUsers ==
    /\ phase = "closing" /\ frontier = {}
    /\ impacted' = {p \in Plays \ Archived : tree.uses[p] \cap closure # {}}
    /\ phase' = "done"
    /\ UNCHANGED <<tree, diff, closure, frontier>>

(* What a file imports is read too, but compared with the roles' names.    *)
PrintPlays ==
    /\ phase = "closing" /\ frontier = {}
    /\ impacted' = {p \in Plays \ Archived :
                       p \in ChangedFiles(diff) \/ tree.uses[p] \cap closure # {}}
    /\ phase' = "done"
    /\ UNCHANGED <<tree, diff, closure, frontier>>

(* The next invocation starts afresh.                                      *)
Forget ==
    /\ phase = "done"
    /\ tree' = NoTree /\ diff' = NoDiff /\ closure' = {} /\ frontier' = {}
    /\ impacted' = {} /\ phase' = "idle"

Compute == Round \/ PrintPlays
InspectNext ==
    \/ \E t \in Trees, d \in Diffs : Inspect(t, d)
    \/ Compute
    \/ Forget

InspectSpec == InspectInit /\ [][InspectNext]_inspection

------------------------------------------------------------------------------
InspectTypeOK ==
    /\ tree \in TreeSet
    /\ diff \in DiffSet
    /\ closure \subseteq Roles
    /\ frontier \subseteq closure
    /\ impacted \subseteq Plays
    /\ phase \in {"idle", "closing", "done"}

(* S holds every role that names a role of S.                              *)
Closed(S) == \A p \in Roles : tree.refs[p] \cap S # {} => p \in S

(* "roles transitively": when the loop ends, the closure is the least set  *)
(* of roles with the changed ones and all that name one of its own, around *)
(* a circle of references too.                                             *)
ClosureIsExact ==
    phase = "done" \/ (phase = "closing" /\ frontier = {})
    => /\ ChangedFiles(diff) \cap Roles \subseteq closure
       /\ Closed(closure)
       /\ \A S \in SUBSET Roles :
              ChangedFiles(diff) \cap Roles \subseteq S /\ Closed(S) => closure \subseteq S

(* An inspection ends, whatever circles the references make.               *)
InspectionEnds == phase = "closing" ~> phase = "done"

(* The plays in which something of the change runs: a file that changed,   *)
(* or that names a role reaching a change, and what imports such a file.   *)
Changed == diff.committed \cup diff.moved \cup diff.dirty
RolesReached ==
    {r \in Roles : \A S \in SUBSET Roles : Changed \cap Roles \subseteq S /\ Closed(S) => r \in S}
Importing(S) ==
    {p \in Plays : \A T \in SUBSET Plays :
        S \subseteq T /\ (\A q \in Plays : tree.imports[q] \cap T # {} => q \in T) => p \in T}
PlaysReached == Importing({p \in Plays : p \in Changed \/ tree.uses[p] \cap RolesReached # {}})

(* What is printed is reached by the change; and what the change reaches   *)
(* is printed or imports a file that is (or is archived), if the change is *)
(* all committed or all not, and moves nothing away.  ("This prints the    *)
(* complete set": it does not name the importing plays, nor look at both   *)
(* halves of a change, nor at the users of a role's old name.)             *)
PrintedIsReached ==
    phase = "done" =>
        /\ impacted \subseteq PlaysReached
        /\ (diff.committed = {} \/ diff.dirty = {}) /\ diff.moved = {}
           => PlaysReached \subseteq Importing(impacted \cup Archived)
==============================================================================
