------------------------- MODULE ChangeGatesProofs -------------------------
(***************************************************************************)
(* What the ratchet of embedded scripts and the guard of the inventories   *)
(* promise, for every repository, any number of pull requests and any      *)
(* number of edits, in whatever order they are checked and merged.         *)
(***************************************************************************)
EXTENDS ChangeGates, FiniteSetTheorems, TLAPS

BaselineSet == [Categories -> [Files -> Nat]]
ChangeSet == [open : BOOLEAN, base : RepoSet, repo : RepoSet,
              updated : BOOLEAN, checked : BOOLEAN, fresh : BOOLEAN]

(* What is found is a count, for each category and file.                   *)
LEMMA ScanType ==
    ASSUME NEW code \in [Files -> SUBSET Occurrences]
    PROVE  Scan(code) \in BaselineSet
  <1>1. ASSUME NEW k \in Categories, NEW f \in Files PROVE Count(k, f, code[f]) \in Nat
    <2>1. ASSUME NEW S \in SUBSET code[f] PROVE Cardinality(S) \in Nat
      BY ScriptsAssumption, FS_Subset, FS_CardinalityType
    <2>2. ASSUME NEW kind PROVE InTasks(f, code[f], kind) \in Nat
      BY <2>1 DEF InTasks
    <2>3. ASSUME NEW kind, NEW places PROVE InText(f, code[f], kind, places) \in Nat
      BY <2>1 DEF InText
    <2>4. k \in {"shell_tasks", "script_module", "raw_module", "inline_interpreters",
                 "script_files", "console_programs", "pipe_lookups"}
      BY DEF Categories
    <2> QED BY <2>2, <2>3, <2>4 DEF Count
  <1> QED BY <1>1 DEF Scan, BaselineSet

(* An author's edit leaves a repository, and its baseline as it was.       *)
LEMMA EditedType ==
    ASSUME NEW t \in RepoSet, NEW u \in Edited(t)
    PROVE  u \in RepoSet /\ u.baseline = t.baseline
  <1>1. CASE about = "scripts"
    <2>1. PICK f \in Files, o \in Occurrences : u = [t EXCEPT !.code[f] = Flip(o, @)]
      BY <1>1 DEF Edited
    <2>2. [t.code EXCEPT ![f] = Flip(o, @)] \in [Files -> SUBSET Occurrences]
      BY DEF RepoSet, Flip
    <2>3. u = [t EXCEPT !.code = [t.code EXCEPT ![f] = Flip(o, @)]]
      BY <2>1 DEF RepoSet
    <2> QED BY <2>2, <2>3 DEF RepoSet
  <1>2. CASE about = "inventory"
    <2>1. \/ \E f \in VarsFiles, n \in Names : u = [t EXCEPT !.inventory[f].names = Flip(n, @)]
          \/ \E f \in VarsFiles : u = [t EXCEPT !.inventory[f].sealed = ~@]
          \/ \E n \in Names : u = [t EXCEPT !.reads = Flip(n, @)]
          \/ \E n \in Names : u = [t EXCEPT !.accepted = Flip(n, @)]
      BY <1>2 DEF Edited
    <2>2. ASSUME NEW f \in VarsFiles, NEW c \in Content,
                 u = [t EXCEPT !.inventory = [t.inventory EXCEPT ![f] = c]]
          PROVE  u \in RepoSet /\ u.baseline = t.baseline
      BY <2>2 DEF RepoSet
    <2>3. ASSUME NEW f \in VarsFiles, NEW n \in Names,
                 u = [t EXCEPT !.inventory[f].names = Flip(n, @)]
          PROVE  u \in RepoSet /\ u.baseline = t.baseline
      <3> DEFINE c == [t.inventory[f] EXCEPT !.names = Flip(n, @)]
      <3>1. c \in Content
        BY DEF RepoSet, Content, Flip
      <3>2. u = [t EXCEPT !.inventory = [t.inventory EXCEPT ![f] = c]]
        BY <2>3
      <3> QED BY <2>2, <3>1, <3>2
    <2>4. ASSUME NEW f \in VarsFiles, u = [t EXCEPT !.inventory[f].sealed = ~@]
          PROVE  u \in RepoSet /\ u.baseline = t.baseline
      <3> DEFINE c == [t.inventory[f] EXCEPT !.sealed = ~@]
      <3>1. c \in Content
        BY DEF RepoSet, Content
      <3>2. u = [t EXCEPT !.inventory = [t.inventory EXCEPT ![f] = c]]
        BY <2>4
      <3> QED BY <2>2, <3>1, <3>2
    <2>5. ASSUME NEW n \in Names, \/ u = [t EXCEPT !.reads = Flip(n, @)]
                                 \/ u = [t EXCEPT !.accepted = Flip(n, @)]
          PROVE  u \in RepoSet /\ u.baseline = t.baseline
      <3>1. Flip(n, t.reads) \in SUBSET Names /\ Flip(n, t.accepted) \in SUBSET Names
        BY DEF RepoSet, Flip
      <3> QED BY <2>5, <3>1 DEF RepoSet
    <2> QED BY <2>1, <2>3, <2>4, <2>5
  <1>3. CASE about \notin {"scripts", "inventory"}
    <2>1. ASSUME NEW s \in Services, u = [t EXCEPT !.held = Flip(s.name, @)]
          PROVE  u \in RepoSet /\ u.baseline = t.baseline
      BY <2>1 DEF RepoSet, Flip
    <2>2. ASSUME 1 \in DOMAIN t.listed, u = [t EXCEPT !.listed = Front(@)]
          PROVE  u \in RepoSet /\ u.baseline = t.baseline
      <3>1. t.listed \in Seq(Services)
        BY DEF RepoSet
      <3>2. Front(t.listed) \in Seq(Services)
        BY <2>2, <3>1 DEF Front
      <3> QED BY <2>2, <3>2 DEF RepoSet
    <2>3. ASSUME NEW e \in RoleEdits, u = [t EXCEPT !.roles[e[1]] = e[2]]
          PROVE  u \in RepoSet /\ u.baseline = t.baseline
      <3>1. e[1] \in ServiceRoles /\ e[2] \in RoleSet
        BY GatesAssumption
      <3> QED BY <2>3, <3>1 DEF RepoSet
    <2>4. ASSUME NEW e \in PlaybookEdits, u = [t EXCEPT !.plays[e[1]] = e[2]]
          PROVE  u \in RepoSet /\ u.baseline = t.baseline
      <3>1. e[1] \in Playbooks /\ e[2] \in PlaybookSet
        BY GatesAssumption
      <3> QED BY <2>4, <3>1 DEF RepoSet
    <2> QED BY <1>3, <2>1, <2>2, <2>3, <2>4 DEF Edited
  <1> QED BY <1>1, <1>2, <1>3

(* What git merges of three repositories is a repository.                  *)
LEMMA MergedType ==
    ASSUME NEW b \in RepoSet, NEW x \in RepoSet, NEW y \in RepoSet
    PROVE  Merged(b, x, y) \in RepoSet
  <1> DEFINE m == Merged(b, x, y)
  <1>3. m.code \in [Files -> SUBSET Occurrences]
    <2>1. \A f \in Files : MergeSet(b.code[f], x.code[f], y.code[f]) \in SUBSET Occurrences
      BY DEF RepoSet, MergeSet
    <2> QED BY <2>1 DEF Merged
  <1>4. m.baseline \in BaselineSet
    <2>1. \A k \in Categories, f \in Files :
             Pick(b.baseline[k][f], x.baseline[k][f], y.baseline[k][f]) \in Nat
      BY DEF RepoSet, Pick
    <2> QED BY <2>1 DEF Merged, BaselineSet
  <1>5. m.inventory \in [VarsFiles -> Content]
    <2>1. ASSUME NEW f \in VarsFiles
          PROVE  /\ MergeSet(b.inventory[f].names, x.inventory[f].names, y.inventory[f].names)
                       \in SUBSET Names
                 /\ Pick(b.inventory[f].sealed, x.inventory[f].sealed, y.inventory[f].sealed)
                       \in BOOLEAN
      <3>1. /\ b.inventory[f] \in Content /\ x.inventory[f] \in Content
            /\ y.inventory[f] \in Content
        BY DEF RepoSet
      <3> QED BY <3>1 DEF Content, MergeSet, Pick
    <2> QED BY <2>1 DEF Merged, Content
  <1>6. m.reads \in SUBSET Names /\ m.accepted \in SUBSET Names
    BY DEF Merged, RepoSet, MergeSet
  <1>7. m.held \in SUBSET {s.name : s \in Services} /\ m.listed \in Seq(Services)
    BY DEF Merged, RepoSet, MergeSet, Pick
  <1>8. m.roles \in [ServiceRoles -> RoleSet] /\ m.plays \in [Playbooks -> PlaybookSet]
    BY DEF Merged, RepoSet, Pick
  <1> QED BY <1>3, <1>4, <1>5, <1>6, <1>7, <1>8 DEF Merged, RepoSet, BaselineSet

------------------------------------------------------------------------------
(* While every change lands on the main it was checked on, main passes its *)
(* own guards; a check still fresh is of what a merge would make of main;  *)
(* and a branch that did not run --update has no baseline above the one it *)
(* left main with.                                                         *)
GateInv ==
    /\ GatesTypeOK
    /\ ~stale => green /\ ScriptsPass(main)
    /\ \A c \in Changes :
          /\ change[c].checked /\ change[c].fresh => Passes(main, Result(c))
          /\ ~change[c].updated => \A k \in Categories, f \in Files :
                change[c].repo.baseline[k][f] <= change[c].base.baseline[k][f]

LEMMA BaselineNat ==
    ASSUME NEW t \in RepoSet, NEW k \in Categories, NEW f \in Files
    PROVE  t.baseline[k][f] \in Nat
  BY DEF RepoSet

(* A step that only touches its own change, and leaves its check undone,   *)
(* keeps the invariant.                                                    *)
LEMMA OwnChange ==
    ASSUME GateInv, NEW c \in Changes, NEW rec \in ChangeSet,
           change' = [change EXCEPT ![c] = rec], UNCHANGED <<main, green, stale, about>>,
           edits' \in 0 .. MaxEdits,
           rec.checked /\ rec.fresh => Passes(main, Merged(rec.base, main, rec.repo)),
           ~rec.updated => \A k \in Categories, f \in Files :
                rec.repo.baseline[k][f] <= rec.base.baseline[k][f]
    PROVE  GateInv'
  <1>1. change \in [Changes -> ChangeSet]
    BY DEF GateInv, GatesTypeOK, ChangeSet
  <1>2. \A d \in Changes : change'[d] = IF d = c THEN rec ELSE change[d]
    BY <1>1
  <1>3. GatesTypeOK'
    BY <1>1 DEF GateInv, GatesTypeOK, ChangeSet
  <1>4. ASSUME NEW d \in Changes, change'[d].checked, change'[d].fresh
        PROVE  Passes(main, Result(d))'
    <2>1. CASE d = c
      BY <1>2, <1>4, <2>1 DEF Result
    <2>2. CASE d # c
      BY <1>2, <1>4, <2>2 DEF Result, GateInv
    <2> QED BY <2>1, <2>2
  <1> QED BY <1>2, <1>3, <1>4 DEF GateInv

LEMMA NoChangeKept ==
    /\ NoChange \in ChangeSet /\ ~NoChange.fresh
    /\ \A k \in Categories, f \in Files :
          NoChange.repo.baseline[k][f] <= NoChange.base.baseline[k][f]
  BY GatesAssumption, BaselineNat DEF NoChange, ChangeSet

LEMMA MergeKeeps ==
    ASSUME GateInv, NEW c \in Changes, MergeChange(c)
    PROVE  GateInv'
  <1>1. change \in [Changes -> ChangeSet] /\ main \in RepoSet
    BY DEF GateInv, GatesTypeOK, ChangeSet
  <1>2. \A d \in Changes : change'[d] = IF d = c THEN NoChange ELSE [change[d] EXCEPT !.fresh = FALSE]
    BY DEF MergeChange
  <1>3. change' \in [Changes -> ChangeSet]
    <2>1. \A d \in Changes : change'[d] \in ChangeSet
      BY <1>1, <1>2, NoChangeKept DEF ChangeSet
    <2> QED BY <2>1 DEF MergeChange
  <1>4. main' \in RepoSet
    BY <1>1, MergedType DEF MergeChange, Result, ChangeSet
  <1>5. GatesTypeOK'
    <2>1. green' \in BOOLEAN
      BY DEF MergeChange, Passes
    <2>2. stale' \in BOOLEAN /\ edits' \in 0 .. MaxEdits
          /\ about' \in {"scripts", "inventory", "contract", "plays"}
      BY <1>1 DEF MergeChange, GateInv, GatesTypeOK
    <2> QED BY <1>3, <1>4, <2>1, <2>2 DEF GatesTypeOK, ChangeSet
  <1>6. ~stale' => green' /\ ScriptsPass(main')
    BY DEF MergeChange, GateInv, Passes
  <1>7. \A d \in Changes : ~change'[d].fresh
    BY <1>1, <1>2, NoChangeKept DEF ChangeSet
  <1>8. ASSUME NEW d \in Changes, ~change'[d].updated, NEW k \in Categories, NEW f \in Files
        PROVE  change'[d].repo.baseline[k][f] <= change'[d].base.baseline[k][f]
    <2>1. CASE d = c
      BY <1>2, <2>1, NoChangeKept
    <2>2. CASE d # c
      <3>1. /\ change'[d].repo = change[d].repo /\ change'[d].base = change[d].base
            /\ change'[d].updated = change[d].updated
        BY <1>1, <1>2, <2>2 DEF ChangeSet
      <3> QED BY <1>8, <3>1 DEF GateInv
    <2> QED BY <2>1, <2>2
  <1> QED BY <1>5, <1>6, <1>7, <1>8 DEF GateInv

(* Every step of a change keeps the invariant.                             *)
LEMMA StepKeeps ==
    ASSUME GateInv, NEW c \in Changes,
           \/ Open(c) \/ Edit(c) \/ LowerBaseline(c) \/ Update(c) \/ CheckChange(c)
           \/ MergeChange(c)
    PROVE  GateInv'
  <1>1. /\ change[c] \in ChangeSet /\ change[c].repo \in RepoSet /\ change[c].base \in RepoSet
        /\ main \in RepoSet /\ edits \in 0 .. MaxEdits
        /\ Scan(change[c].repo.code) \in BaselineSet
    <2>1. change[c] \in ChangeSet /\ main \in RepoSet /\ edits \in 0 .. MaxEdits
      BY DEF GateInv, GatesTypeOK, ChangeSet
    <2>2. change[c].repo \in RepoSet /\ change[c].base \in RepoSet
      BY <2>1 DEF ChangeSet
    <2>3. change[c].repo.code \in [Files -> SUBSET Occurrences]
      BY <2>2 DEF RepoSet
    <2> QED BY <2>1, <2>2, <2>3, ScanType
  <1>2. CASE Open(c)
    <2> DEFINE rec == [NoChange EXCEPT !.open = TRUE, !.base = main, !.repo = main]
    <2>1. rec \in ChangeSet /\ ~rec.fresh
      BY <1>1, NoChangeKept DEF ChangeSet, NoChange
    <2>2. rec.repo = rec.base /\ rec.repo \in RepoSet
      BY <1>1 DEF NoChange
    <2>3. change' = [change EXCEPT ![c] = rec]
      BY <1>2 DEF Open
    <2>4. UNCHANGED <<main, green, stale, about, edits>>
      BY <1>2 DEF Open
    <2>5. \A k \in Categories, f \in Files : rec.repo.baseline[k][f] <= rec.base.baseline[k][f]
      BY <2>2, BaselineNat
    <2> HIDE DEF rec
    <2> QED BY <1>1, <2>1, <2>3, <2>4, <2>5, OwnChange
  <1>3. CASE Edit(c)
    <2>1. PICK t \in Edited(change[c].repo) :
             change' = [change EXCEPT ![c].repo = t, ![c].checked = FALSE]
      BY <1>3 DEF Edit
    <2> DEFINE rec == [change[c] EXCEPT !.repo = t, !.checked = FALSE]
    <2>2. t \in RepoSet /\ t.baseline = change[c].repo.baseline
      BY <1>1, EditedType
    <2>3. rec \in ChangeSet /\ ~rec.checked /\ rec.repo = t /\ rec.base = change[c].base
          /\ rec.updated = change[c].updated
      BY <1>1, <2>2 DEF ChangeSet
    <2>4. change' = [change EXCEPT ![c] = rec]
      BY <2>1 DEF GateInv, GatesTypeOK
    <2>5. UNCHANGED <<main, green, stale, about>> /\ edits' \in 0 .. MaxEdits
      BY <1>1, <1>3, GatesAssumption DEF Edit
    <2>6. ~rec.updated => \A k \in Categories, f \in Files :
             rec.repo.baseline[k][f] <= rec.base.baseline[k][f]
      BY <2>2, <2>3 DEF GateInv
    <2> HIDE DEF rec
    <2> QED BY <2>3, <2>4, <2>5, <2>6, OwnChange
  <1>4. CASE LowerBaseline(c)
    <2> DEFINE found == Scan(change[c].repo.code)
               t == [change[c].repo EXCEPT !.baseline = found]
               rec == [change[c] EXCEPT !.repo = t, !.checked = FALSE]
    <2>1. t \in RepoSet /\ t.baseline = found
      BY <1>1 DEF RepoSet, BaselineSet
    <2>2. rec \in ChangeSet /\ ~rec.checked /\ rec.repo = t /\ rec.base = change[c].base
          /\ rec.updated = change[c].updated
      BY <1>1, <2>1 DEF ChangeSet
    <2>3. change' = [change EXCEPT ![c] = rec]
      BY <1>4 DEF LowerBaseline, GateInv, GatesTypeOK
    <2>4. UNCHANGED <<main, green, stale, about, edits>>
      BY <1>4 DEF LowerBaseline
    <2>5. ASSUME ~rec.updated, NEW k \in Categories, NEW f \in Files
          PROVE  rec.repo.baseline[k][f] <= rec.base.baseline[k][f]
      <3>1. found[k][f] <= change[c].repo.baseline[k][f]
        <4>1. ~(found[k][f] > change[c].repo.baseline[k][f])
          BY <1>4 DEF LowerBaseline, Rose
        <4>2. found[k][f] \in Nat
          BY <1>1 DEF BaselineSet
        <4> QED BY <1>1, <4>1, <4>2, BaselineNat
      <3>2. change[c].repo.baseline[k][f] <= change[c].base.baseline[k][f]
        BY <2>2, <2>5 DEF GateInv
      <3>3. found[k][f] \in Nat /\ change[c].repo.baseline[k][f] \in Nat
            /\ change[c].base.baseline[k][f] \in Nat
        BY <1>1, BaselineNat DEF BaselineSet
      <3>4. rec.repo.baseline[k][f] = found[k][f]
            /\ rec.base.baseline[k][f] = change[c].base.baseline[k][f]
        BY <2>1, <2>2
      <3> HIDE DEF found, rec
      <3> QED BY <3>1, <3>2, <3>3, <3>4
    <2> HIDE DEF rec
    <2> QED BY <1>1, <2>2, <2>3, <2>4, <2>5, OwnChange
  <1>5. CASE Update(c)
    <2> DEFINE t == [change[c].repo EXCEPT !.baseline = Scan(change[c].repo.code)]
               rec == [change[c] EXCEPT !.repo = t, !.updated = TRUE, !.checked = FALSE]
    <2>1. t \in RepoSet
      BY <1>1 DEF RepoSet, BaselineSet
    <2>2. rec \in ChangeSet /\ ~rec.checked /\ rec.updated
      BY <1>1, <2>1 DEF ChangeSet
    <2>3. change' = [change EXCEPT ![c] = rec]
      BY <1>5 DEF Update, GateInv, GatesTypeOK
    <2>4. UNCHANGED <<main, green, stale, about, edits>>
      BY <1>5 DEF Update
    <2> HIDE DEF rec
    <2> QED BY <1>1, <2>2, <2>3, <2>4, OwnChange
  <1>6. CASE CheckChange(c)
    <2> DEFINE rec == [change[c] EXCEPT !.checked = TRUE, !.fresh = TRUE]
    <2>1. rec \in ChangeSet /\ rec.repo = change[c].repo /\ rec.base = change[c].base
          /\ rec.updated = change[c].updated
      BY <1>1 DEF ChangeSet
    <2>2. change' = [change EXCEPT ![c] = rec]
      BY <1>6 DEF CheckChange, GateInv, GatesTypeOK
    <2>3. UNCHANGED <<main, green, stale, about, edits>>
      BY <1>6 DEF CheckChange
    <2>4. Passes(main, Merged(rec.base, main, rec.repo))
      BY <1>6, <2>1 DEF CheckChange, Result
    <2>5. ~rec.updated => \A k \in Categories, f \in Files :
             rec.repo.baseline[k][f] <= rec.base.baseline[k][f]
      BY <2>1 DEF GateInv
    <2> HIDE DEF rec
    <2> QED BY <1>1, <2>1, <2>2, <2>3, <2>4, <2>5, OwnChange
  <1>7. CASE MergeChange(c)
    BY <1>7, MergeKeeps
  <1> QED BY <1>2, <1>3, <1>4, <1>5, <1>6, <1>7

(* The inductive invariant of the guards holds throughout.                 *)
THEOREM GateInvariant == Spec => []GateInv
  <1>1. Init => GateInv
    <2> SUFFICES ASSUME GatesInit PROVE GateInv
      BY DEF Init
    <2>1. GatesTypeOK
      <3>1. change \in [Changes -> ChangeSet]
        BY NoChangeKept DEF GatesInit
      <3>2. main \in RepoSet /\ edits \in 0 .. MaxEdits
        BY GatesAssumption DEF GatesInit
      <3>3. change \in [Changes -> [open : BOOLEAN, base : RepoSet, repo : RepoSet,
                                    updated : BOOLEAN, checked : BOOLEAN, fresh : BOOLEAN]]
        BY <3>1 DEF ChangeSet
      <3> QED BY <3>2, <3>3 DEF GatesInit, GatesTypeOK
    <2> QED BY <2>1, GatesAssumption, NoChangeKept DEF GatesInit, GateInv, Passes
  <1>2. GateInv /\ [Next]_<<gates, inspection>> => GateInv'
    <2> SUFFICES ASSUME GateInv, [Next]_<<gates, inspection>> PROVE GateInv'
      OBVIOUS
    <2>1. CASE UNCHANGED gates
      BY <2>1 DEF gates, GateInv, GatesTypeOK, Result
    <2>2. CASE GatesStep
      BY <2>2, StepKeeps DEF GatesStep
    <2> QED BY <2>1, <2>2 DEF Next
  <1> QED BY <1>1, <1>2, PTL DEF Spec

(* While every change lands on the main it was checked on, CI of main      *)
(* passes as well: no two changes, each passing on its own, break it.      *)
THEOREM AlwaysGreenWhileFresh == Spec => []GreenWhileFresh
  <1>1. GateInv => GreenWhileFresh
    BY DEF GateInv, GreenWhileFresh
  <1> QED BY <1>1, GateInvariant, PTL

(* And then no merge adds an embedded script of any category to any file,  *)
(* unless its branch ran --update.                                         *)
LEMMA MergeLowers ==
    ASSUME GateInv, NEW c \in Changes, MergeChange(c), ~change[c].updated, ~stale',
           NEW k \in Categories, NEW f \in Files
    PROVE  Scan(main'.code)[k][f] <= Scan(main.code)[k][f]
  <1> DEFINE b == change[c].base
             y == change[c].repo
  <1>1. b \in RepoSet /\ y \in RepoSet /\ main \in RepoSet
    BY DEF GateInv, GatesTypeOK
  <1>2. main' \in RepoSet /\ main' = Merged(b, main, y)
    BY <1>1, MergedType DEF MergeChange, Result
  <1>3. ASSUME NEW t \in RepoSet, ScriptsPass(t) PROVE Scan(t.code)[k][f] = t.baseline[k][f]
    <2>1. Scan(t.code) \in BaselineSet
      BY ScanType DEF RepoSet
    <2>2. Scan(t.code)[k][f] \in Nat /\ t.baseline[k][f] \in Nat
      BY <2>1, BaselineNat DEF BaselineSet
    <2> QED BY <1>3, <2>2 DEF ScriptsPass, Rose, Fell
  <1>4. ScriptsPass(main) /\ ScriptsPass(main')
    BY DEF MergeChange, GateInv, Passes
  <1>5. main'.baseline[k][f] = Pick(b.baseline[k][f], main.baseline[k][f], y.baseline[k][f])
    BY <1>2 DEF Merged
  <1>6. y.baseline[k][f] <= b.baseline[k][f]
    BY DEF GateInv
  <1>7. ~Clash(b.baseline[k][f], main.baseline[k][f], y.baseline[k][f])
    BY DEF MergeChange, Mergeable
  <1>8. main'.baseline[k][f] <= main.baseline[k][f]
    BY <1>1, <1>5, <1>6, <1>7, BaselineNat DEF Pick, Clash
  <1> QED BY <1>1, <1>2, <1>3, <1>4, <1>8

(* A merge of a change that was checked on this main adds no embedded      *)
(* script to any file, unless its branch ran --update.                     *)
THEOREM CountsNeverRise == Spec => CountsOnlyFall
  <1>1. GateInv => [\A c \in Changes : MergeChange(c) /\ ~change[c].updated /\ ~stale' =>
           \A k \in Categories, f \in Files : Scan(main'.code)[k][f] <= Scan(main.code)[k][f]
         ]_<<gates, inspection>>
    BY MergeLowers
  <1> QED BY <1>1, GateInvariant, PTL DEF CountsOnlyFall

(* A merge that takes away a variable which code on main still reads is    *)
(* accepted by name or turns main's CI red, whatever it was checked on.    *)
THEOREM LossIsAlwaysTold == Spec => LossIsTold
  <1>1. [Next]_<<gates, inspection>> =>
        [\A f \in VarsFiles, n \in Names :
           /\ n \in NamesIn(main.inventory[f]) /\ n \in main'.reads
           /\ \A g \in VarsFiles : g.env = f.env => n \notin NamesIn(main'.inventory[g])
           => n \in main'.accepted \/ ~green'
        ]_<<gates, inspection>>
    <2> SUFFICES ASSUME [Next]_<<gates, inspection>>, NEW f \in VarsFiles, NEW n \in Names,
                        n \in NamesIn(main.inventory[f]), n \in main'.reads,
                        \A g \in VarsFiles : g.env = f.env => n \notin NamesIn(main'.inventory[g]),
                        n \notin main'.accepted
                 PROVE  ~green'
      OBVIOUS
    <2>1. main' # main
      OBVIOUS
    <2>2. PICK c \in Changes : MergeChange(c)
      BY <2>1 DEF Next, gates, GatesStep, Open, Edit, LowerBaseline, Update, CheckChange
    <2>3. <<f.env, n>> \in Removed(main.inventory, main'.inventory)
      BY DEF Removed, Envs, NamesByEnv
    <2>4. <<f.env, n>> \in Problems(main.inventory, main'.inventory, main'.reads, main'.accepted)
      BY <2>3 DEF Problems
    <2>5. green' = Passes(main, main')
      BY <2>2 DEF MergeChange
    <2> QED BY <2>4, <2>5 DEF Passes
  <1> QED BY <1>1, PTL DEF Spec, LossIsTold

------------------------------------------------------------------------------
(* scripts/impacted_plays.py, for every tree: any number of roles, any     *)
(* references between them, circles included.                              *)

(* What the loop has settled: whoever names a role of the closure that is  *)
(* no longer in the frontier is in the closure; and nothing is in it that  *)
(* a closed set with the seed could leave out.                             *)
Settled ==
    phase \in {"closing", "done"} =>
        /\ ChangedFiles(diff) \cap Roles \subseteq closure
        /\ \A p \in Roles : tree.refs[p] \cap (closure \ frontier) # {} => p \in closure
        /\ \A S \in SUBSET Roles :
               ChangedFiles(diff) \cap Roles \subseteq S /\ Closed(S) => closure \subseteq S

InspectInv ==
    /\ InspectTypeOK
    /\ Settled
    /\ phase = "done" =>
          /\ frontier = {}
          /\ impacted = {p \in Plays \ Archived :
                            p \in ChangedFiles(diff) \/ tree.uses[p] \cap closure # {}}

(* The invariant says what is claimed, once the frontier is empty.         *)
LEMMA SettledIsExact == InspectInv => ClosureIsExact
  BY DEF InspectInv, Settled, ClosureIsExact, Closed, InspectTypeOK

(* At first nothing is inspected.                                          *)
LEMMA InitSettled == InspectInit => InspectInv
  BY DEF InspectInit, InspectInv, Settled, InspectTypeOK, NoTree, NoDiff, TreeSet, DiffSet

(* One round: the frontier's parents join, and the frontier moves on.      *)
LEMMA RoundSettles == InspectInv /\ Round => InspectInv'
<1> SUFFICES ASSUME InspectInv, Round PROVE InspectInv'
  OBVIOUS
<1> USE DEF InspectInv, Round, Parents
<1>1. InspectTypeOK'
  BY DEF InspectTypeOK
<1>2. \A p \in Roles : tree.refs[p] \cap (closure' \ frontier') # {} => p \in closure'
  BY DEF Settled, InspectTypeOK
<1>3. ASSUME NEW S \in SUBSET Roles, ChangedFiles(diff) \cap Roles \subseteq S, Closed(S)
      PROVE  closure' \subseteq S
  <2>1. closure \subseteq S
    BY <1>3 DEF Settled
  <2>2. Parents(frontier) \subseteq S
    BY <2>1, <1>3 DEF Closed, InspectTypeOK
  <2> QED BY <2>1, <2>2
<1>4. Settled'
  BY <1>2, <1>3 DEF Settled, Closed, ChangedFiles
<1> QED BY <1>1, <1>4

(* Every step keeps the invariant.                                         *)
LEMMA StepSettles == InspectInv /\ [InspectNext]_inspection => InspectInv'
<1> SUFFICES ASSUME InspectInv, [InspectNext]_inspection PROVE InspectInv'
  OBVIOUS
<1> USE DEF InspectInv
<1>1. ASSUME NEW t \in Trees, NEW d \in Diffs, Inspect(t, d) PROVE InspectInv'
  BY <1>1, InspectAssumption DEF Inspect, InspectTypeOK, Settled, Closed, ChangedFiles
<1>2. CASE Round
  BY <1>2, RoundSettles
<1>3. CASE PrintPlays
  BY <1>3 DEF PrintPlays, InspectTypeOK, Settled, Closed, ChangedFiles
<1>4. CASE Forget
  BY <1>4 DEF Forget, InspectTypeOK, Settled, NoTree, NoDiff, TreeSet, DiffSet
<1>5. CASE UNCHANGED inspection
  BY <1>5 DEF inspection, InspectTypeOK, Settled, Closed, ChangedFiles
<1> QED BY <1>1, <1>2, <1>3, <1>4, <1>5 DEF InspectNext, Compute

(* "roles transitively": the set of roles the script works with is the     *)
(* least one with the changed roles and all that name one of it, for every *)
(* repository and every change.                                            *)
THEOREM ClosureExact == InspectSpec => []ClosureIsExact
<1>1. InspectInv => ClosureIsExact
  BY SettledIsExact
<1>2. InspectInit => InspectInv
  BY InitSettled
<1>3. InspectInv /\ [InspectNext]_inspection => InspectInv'
  BY StepSettles
<1> QED BY <1>1, <1>2, <1>3, PTL DEF InspectSpec
(* Importing a set of files is importing at least what a part of it does,  *)
(* and each file of the set itself.                                        *)
LEMMA ImportingGrows ==
    ASSUME NEW S \in SUBSET Plays, NEW T \in SUBSET Plays, S \subseteq T
    PROVE  S \subseteq Importing(S) /\ Importing(S) \subseteq Importing(T)
  BY DEF Importing

(* The closure is what the change reaches among the roles, if the script   *)
(* looked at every half of the change.                                     *)
LEMMA ClosureIsReached ==
    ASSUME InspectInv, phase = "done"
    PROVE  /\ ChangedFiles(diff) \subseteq Changed
           /\ closure \subseteq RolesReached
           /\ ChangedFiles(diff) = Changed => RolesReached \subseteq closure
<1>1. ChangedFiles(diff) \subseteq Changed
  BY DEF ChangedFiles, Changed
<1>2. closure \subseteq RolesReached
  <2>1. ASSUME NEW S \in SUBSET Roles, Changed \cap Roles \subseteq S, Closed(S)
        PROVE  closure \subseteq S
    BY <1>1, <2>1 DEF InspectInv, Settled
  <2>2. closure \subseteq Roles
    BY DEF InspectInv, InspectTypeOK
  <2> QED BY <2>1, <2>2 DEF RolesReached
<1>3. ASSUME ChangedFiles(diff) = Changed PROVE RolesReached \subseteq closure
  <2>1. closure \in SUBSET Roles /\ Changed \cap Roles \subseteq closure /\ Closed(closure)
    BY <1>3 DEF InspectInv, InspectTypeOK, Settled, Closed
  <2> QED BY <2>1 DEF RolesReached
<1> QED BY <1>1, <1>2, <1>3

(* "This prints the complete set", as far as it does: every file printed   *)
(* is one the change reaches; and of a change all committed or all not     *)
(* that moves nothing away, what it reaches is printed, or imports a file  *)
(* that is, or one that is archived.                                       *)
THEOREM PrintedReached == InspectSpec => []PrintedIsReached
<1>1. InspectInv => PrintedIsReached
  <2> SUFFICES ASSUME InspectInv, phase = "done"
               PROVE  /\ impacted \subseteq PlaysReached
                      /\ (diff.committed = {} \/ diff.dirty = {}) /\ diff.moved = {}
                         => PlaysReached \subseteq Importing(impacted \cup Archived)
    BY DEF PrintedIsReached
  <2> DEFINE Users == {p \in Plays : p \in Changed \/ tree.uses[p] \cap RolesReached # {}}
  <2>1. impacted = {p \in Plays \ Archived :
                      p \in ChangedFiles(diff) \/ tree.uses[p] \cap closure # {}}
    BY DEF InspectInv
  <2>2. impacted \subseteq Users
    BY <2>1, ClosureIsReached
  <2>3. impacted \subseteq PlaysReached
    BY <2>2, ImportingGrows DEF PlaysReached
  <2>4. ASSUME diff.committed = {} \/ diff.dirty = {}, diff.moved = {}
        PROVE  PlaysReached \subseteq Importing(impacted \cup Archived)
    <3>1. ChangedFiles(diff) = Changed
      BY <2>4 DEF ChangedFiles, Changed
    <3>2. Users \subseteq impacted \cup Archived
      BY <2>1, <3>1, ClosureIsReached
    <3>3. impacted \cup Archived \subseteq Plays
      BY <2>1, InspectAssumption
    <3> QED BY <3>2, <3>3, ImportingGrows DEF PlaysReached
  <2> QED BY <2>3, <2>4
<1>2. InspectInit => InspectInv
  BY InitSettled
<1>3. InspectInv /\ [InspectNext]_inspection => InspectInv'
  BY StepSettles
<1> QED BY <1>1, <1>2, <1>3, PTL DEF InspectSpec

(* Beside the pull requests it shares the repository with, the script is   *)
(* the one these theorems are about.                                       *)
THEOREM GatesInspect == Spec => InspectSpec
<1>1. Init => InspectInit
  BY DEF Init
<1>2. [Next]_<<gates, inspection>> => [InspectNext]_inspection
  BY DEF Next
<1> QED BY <1>1, <1>2, PTL DEF Spec, InspectSpec
==============================================================================
