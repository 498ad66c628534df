---------------------------- MODULE ChangeGates ----------------------------
(***************************************************************************)
(* Changes of this repository between their first edit and main: hooks     *)
(* that compare the whole tree with lists kept in the tree itself          *)
(* (EmbeddedScripts, ServiceContract) and with the tree it lands on        *)
(* (InventoryGuard), run on the merge of a pull request and again on main. *)
(* A pull request may be merged on a main that moved since it was checked. *)
(* Before that, its author lists the plays to dry-run (ImpactedPlays).     *)
(***************************************************************************)
EXTENDS ImpactedPlays, ServiceContract, EmbeddedScripts, InventoryGuard

CONSTANTS
    Changes,       \* pull requests
    FirstTree,     \* main at first
    RoleEdits,     \* bound: <<role, what it becomes>>
    PlaybookEdits, \* bound: <<playbook, what it becomes>>
    MaxEdits       \* bound: edits of all changes together

VARIABLES
    main,          \* the tree of main
    green,         \* what CI said of it
    change,        \* pull request -> its state
    stale,         \* a change was merged on a main it was not checked on
    edits,         \* made so far
    about          \* bound: the guard a behaviour is about

gates == <<main, green, change, stale, edits, about>>

RepoSet ==
    [code : [Files -> SUBSET Occurrences], baseline : [Categories -> [Files -> Nat]],
     inventory : [VarsFiles -> Content], reads : SUBSET Names, accepted : SUBSET Names,
     roles : [ServiceRoles -> RoleSet], plays : [Playbooks -> PlaybookSet],
     listed : Seq(Services), held : SUBSET {s.name : s \in Services}]

NoChange == [open |-> FALSE, base |-> FirstTree, repo |-> FirstTree,
             updated |-> FALSE, checked |-> FALSE, fresh |-> FALSE]

(* The guards: no occurrence more, none less than the baseline; no listed  *)
(* service off the contract; no variable taken away that is still read.    *)
ScriptsPass(t) ==
    LET found == Scan(t.code) IN ~Rose(found, t.baseline) /\ ~Fell(found, t.baseline)
Passes(base, t) ==
    /\ ScriptsPass(t)
    /\ Ratchet(t.roles, t.plays, t.listed, t.held)
    /\ Problems(base.inventory, t.inventory, t.reads, t.accepted) = {}

ASSUME GatesAssumption ==
    /\ FirstTree \in RepoSet /\ Passes(FirstTree, FirstTree)
    /\ RoleEdits \subseteq ServiceRoles \X RoleSet
    /\ PlaybookEdits \subseteq Playbooks \X PlaybookSet
    /\ MaxEdits \in Nat

GatesInit ==
    /\ main = FirstTree
    /\ green = TRUE
    /\ change = [c \in Changes |-> NoChange]
    /\ stale = FALSE
    /\ edits = 0
    /\ about \in {"scripts", "inventory", "contract", "plays"}

(* git's three-way merge: sets of lines, and lines of their own.           *)
MergeSet(b, x, y) == (x \ (b \ y)) \cup (y \ b)
Pick(b, x, y) == IF y = b THEN x ELSE y
Clash(b, x, y) == y # b /\ x # b /\ x # y
Merged(b, x, y) ==
    [code      |-> [f \in Files |-> MergeSet(b.code[f], x.code[f], y.code[f])],
     baseline  |-> [k \in Categories |-> [f \in Files |->
                       Pick(b.baseline[k][f], x.baseline[k][f], y.baseline[k][f])]],
     inventory |-> [f \in VarsFiles |->
                       [names |-> MergeSet(b.inventory[f].names, x.inventory[f].names, y.inventory[f].names),
                        sealed |-> Pick(b.inventory[f].sealed, x.inventory[f].sealed, y.inventory[f].sealed)]],
     reads     |-> MergeSet(b.reads, x.reads, y.reads),
     accepted  |-> MergeSet(b.accepted, x.accepted, y.accepted),
     roles     |-> [r \in ServiceRoles |-> Pick(b.roles[r], x.roles[r], y.roles[r])],
     plays     |-> [p \in Playbooks |-> Pick(b.plays[p], x.plays[p], y.plays[p])],
     listed    |-> Pick(b.listed, x.listed, y.listed),
     held      |-> MergeSet(b.held, x.held, y.held)]
Mergeable(b, x, y) ==
    /\ \A k \in Categories, f \in Files : ~Clash(b.baseline[k][f], x.baseline[k][f], y.baseline[k][f])
    /\ \A r \in ServiceRoles : ~Clash(b.roles[r], x.roles[r], y.roles[r])
    /\ \A p \in Playbooks : ~Clash(b.plays[p], x.plays[p], y.plays[p])
    /\ ~Clash(b.listed, x.listed, y.listed)

Result(c) == Merged(change[c].base, main, change[c].repo)

Open(c) ==
    /\ ~change[c].open
    /\ change' = [change EXCEPT ![c] = [NoChange EXCEPT !.open = TRUE, !.base = main, !.repo = main]]
    /\ UNCHANGED <<main, green, stale, edits, about>>

Flip(x, S) == IF x \in S THEN S \ {x} ELSE S \cup {x}

(* What the author may have changed.                                       *)
Edited(t) ==
    IF about = "scripts" THEN
        {[t EXCEPT !.code[f] = Flip(o, @)] : f \in Files, o \in Occurrences}
    ELSE IF about = "inventory" THEN
        {[t EXCEPT !.inventory[f].names = Flip(n, @)] : f \in VarsFiles, n \in Names}
        \cup {[t EXCEPT !.inventory[f].sealed = ~@] : f \in VarsFiles}
        \cup {[t EXCEPT !.reads = Flip(n, @)] : n \in Names}
        \cup {[t EXCEPT !.accepted = Flip(n, @)] : n \in Names}
    ELSE
        {[t EXCEPT !.held = Flip(s.name, @)] : s \in Services}
        \cup {[t EXCEPT !.listed = Front(@)] : i \in {1} \cap DOMAIN t.listed}
        \cup {[t EXCEPT !.roles[e[1]] = e[2]] : e \in RoleEdits}
        \cup {[t EXCEPT !.plays[e[1]] = e[2]] : e \in PlaybookEdits}

Edit(c) ==
    /\ change[c].open /\ edits < MaxEdits /\ edits' = edits + 1
    /\ \E t \in Edited(change[c].repo) :
           change' = [change EXCEPT ![c].repo = t, ![c].checked = FALSE]
    /\ UNCHANGED <<main, green, stale, about>>

(* The hook on the author's machine: fewer than the baseline, and the      *)
(* baseline is rewritten (and the commit refused once).                    *)
LowerBaseline(c) ==
    LET found == Scan(change[c].repo.code)
    IN  /\ change[c].open
        /\ ~Rose(found, change[c].repo.baseline) /\ Fell(found, change[c].repo.baseline)
        /\ change' = [change EXCEPT ![c].repo.baseline = found, ![c].checked = FALSE]
        /\ UNCHANGED <<main, green, stale, edits, about>>

(* --update: the baseline becomes what is found, more or less.             *)
Update(c) ==
    LET found == Scan(change[c].repo.code)
    IN  /\ change[c].open /\ found # change[c].repo.baseline
        /\ change' = [change EXCEPT ![c].repo.baseline = found, ![c].updated = TRUE,
                                    ![c].checked = FALSE]
        /\ UNCHANGED <<main, green, stale, edits, about>>

(* As if CI checked the branch itself, against where it left main.         *)
CheckBranch(c) ==
    /\ change[c].open /\ ~(change[c].checked /\ change[c].fresh)
    /\ Passes(change[c].base, change[c].repo)
    /\ change' = [change EXCEPT ![c].checked = TRUE, ![c].fresh = TRUE]
    /\ UNCHANGED <<main, green, stale, edits, about>>

(* CI on the pull request: its merge with main, against main (HEAD^1).     *)
CheckChange(c) ==
    /\ change[c].open /\ ~(change[c].checked /\ change[c].fresh)
    /\ Mergeable(change[c].base, main, change[c].repo)
    /\ Passes(main, Result(c))
    /\ change' = [change EXCEPT ![c].checked = TRUE, ![c].fresh = TRUE]
    /\ UNCHANGED <<main, green, stale, edits, about>>

(* The merge, and CI on main against what it was.                          *)
MergeChange(c) ==
    /\ change[c].open /\ change[c].checked
    /\ Mergeable(change[c].base, main, change[c].repo)
    /\ main' = Result(c)
    /\ green' = Passes(main, main')
    /\ stale' = (stale \/ ~change[c].fresh)
    /\ change' = [d \in Changes |->
                     IF d = c THEN NoChange ELSE [change[d] EXCEPT !.fresh = FALSE]]
    /\ UNCHANGED <<edits, about>>

GatesStep ==
    \E c \in Changes :
        \/ Open(c) \/ Edit(c) \/ LowerBaseline(c) \/ Update(c)
        \/ CheckChange(c) \/ MergeChange(c)

Init == GatesInit /\ InspectInit
Next ==
    \/ about = "plays" /\ InspectNext /\ UNCHANGED gates
    \/ about # "plays" /\ GatesStep /\ UNCHANGED inspection
Spec == Init /\ [][Next]_<<gates, inspection>> /\ WF_<<gates, inspection>>(Compute /\ UNCHANGED gates)

------------------------------------------------------------------------------
GatesTypeOK ==
    /\ main \in RepoSet
    /\ green \in BOOLEAN
    /\ change \in [Changes -> [open : BOOLEAN, base : RepoSet, repo : RepoSet,
                               updated : BOOLEAN, checked : BOOLEAN, fresh : BOOLEAN]]
    /\ stale \in BOOLEAN
    /\ edits \in 0 .. MaxEdits
    /\ about \in {"scripts", "inventory", "contract", "plays"}

(* While every change lands on the main it was checked on, CI of main      *)
(* passes as well.                                                         *)
GreenWhileFresh == ~stale => green

(* "the counts only go down": while every change lands on the main it was  *)
(* checked on, no merge adds an occurrence of any category to any file     *)
(* unless it ran --update.  (After a merge on a main that moved, the       *)
(* baseline may be above what is found, and the next change may use it.)   *)
CountsOnlyFall ==
    [][\A c \in Changes : MergeChange(c) /\ ~change[c].updated /\ ~stale' =>
           \A k \in Categories, f \in Files : Scan(main'.code)[k][f] <= Scan(main.code)[k][f]
      ]_<<gates, inspection>>

(* "a service that reached the contract cannot silently fall off it":      *)
(* while every change lands on the main it was checked on and no roles     *)
(* name each other in a circle, each service held to the contract and      *)
(* still listed fulfils it, asked on its own.                              *)
HeldServicesPass ==
    [][~stale' /\ Acyclic(main'.roles) => \A svc \in ToSet(main'.listed) :
           svc.name \in main'.held => Check(main'.roles, main'.plays, svc, << >>).failures = {}
      ]_main

(* "a play that skips fact gathering reaches no role that reads facts":    *)
(* the answers one service leaves for the next ones are right, if no roles *)
(* name each other in a circle.                                            *)
ReachesFacts(t, svc) ==
    /\ ~t.plays[svc.playbook].facts
    /\ \E r \in ToSet(t.plays[svc.playbook].roles) : FactsReached(t.roles, r)
FactsAreExact ==
    [][Acyclic(main'.roles) => \A svc \in ToSet(main'.listed) :
           svc.name \in Failing(main'.roles, main'.plays, main'.listed)
           <=> \/ Check(main'.roles, main'.plays, svc, << >>).failures \ {"facts"} # {}
               \/ ReachesFacts(main', svc)
      ]_main

(* A merge that takes away a variable which code on main still reads, also *)
(* code that arrived after the change was checked, is accepted by name or  *)
(* turns main's CI red.                                                    *)
LossIsTold ==
    [][\A f \in VarsFiles, n \in Names :
           /\ n \in NamesIn(main.inventory[f]) /\ n \in main'.reads
           /\ \A g \in VarsFiles : g.env = f.env => n \notin NamesIn(main'.inventory[g])
           => n \in main'.accepted \/ ~green'
      ]_<<gates, inspection>>
==============================================================================
