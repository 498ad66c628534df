-------------------------- MODULE DbPasswordProofs ---------------------------
(***************************************************************************)
(* What holds of a database password for any number of plays.              *)
(***************************************************************************)
EXTENDS DbPassword, TLAPS

(* What a play that nothing overlaps knows at each of its tasks.           *)
Knows(p) ==
    /\ pc[p] \in {"alter", "get"} => trouble \/ pg = vault
    /\ pc[p] \in {"base", "write"} => pg = pw[p]
    /\ pc[p] = "init" => vault = NoPw
    /\ pc[p] \in {"role", "create", "probe", "sync"} => pw[p] = vault
    /\ pc[p] = "create" => pg = NoPw
    /\ pc[p] \in {"secrets", "render", "restart", "health"} => pg = vault
    /\ pc[p] = "render" => pw[p] = vault
    /\ pc[p] \in {"restart", "health"} => file = vault

Alone ==
    /\ \A p \in alone : Busy = {p} /\ Knows(p)
    /\ ~trouble => Busy = alone
    /\ ~trouble /\ Busy = {} => pg = vault
    /\ settled => Busy = {} /\ pg = vault /\ file = vault

(* A file that differs from the container's is some play's business, or    *)
(* was one's that was cut off.                                             *)
Due == running = file \/ half \/ \E p \in Plays : pc[p] = "restart" /\ changed[p]

IInv == TypeOK /\ Alone /\ Due

------------------------------------------------------------------------------
Tasks == RotationTasks \cup DeploymentTasks

LEMMA InitIInv == Init => IInv
<1> SUFFICES ASSUME Init PROVE IInv
  OBVIOUS
<1>1. TypeOK
  <2>1. cuts \in 0 .. MaxCuts
    BY DbAssumption DEF Init
  <2>2. pc \in [Plays -> {"idle"} \cup RotationTasks \cup DeploymentTasks]
    BY DEF Init
  <2> QED
    BY <2>1, <2>2 DEF Init, TypeOK
<1>2. Busy = {}
  BY DEF Init, Busy
<1> QED
  BY <1>1, <1>2 DEF Init, IInv, Alone, Due

(* The play that takes a step is the only one that can be alone.           *)
LEMMA OnlyOne ==
    ASSUME TypeOK, Alone, NEW p \in Plays, pc[p] # "idle"
    PROVE  alone \in {{}, {p}} /\ p \in Busy /\ ~settled
  BY DEF TypeOK, Alone, Busy

LEMMA GotoTyped ==
    ASSUME TypeOK, NEW p \in Plays, NEW task \in Tasks, Goto(p, task)
    PROVE  /\ pc' \in [Plays -> {"idle"} \cup RotationTasks \cup DeploymentTasks]
           /\ alone' \subseteq Plays /\ trouble' \in BOOLEAN /\ settled' \in BOOLEAN
  BY DEF TypeOK, Goto, Tasks

LEMMA GotoAlone ==
    ASSUME TypeOK, Alone, NEW p \in Plays, pc[p] # "idle",
           NEW task \in Tasks, Goto(p, task), p \in alone => Knows(p)'
    PROVE  Alone'
<1>1. /\ alone \in {{}, {p}} /\ ~settled
  BY OnlyOne
<1>2. Busy' = Busy
  BY DEF Goto, Busy, TypeOK, Tasks, RotationTasks, DeploymentTasks
<1>3. p \in Busy
  BY OnlyOne
<1> QED
  BY <1>1, <1>2, <1>3 DEF Alone, Goto

LEMMA LeaveTyped ==
    ASSUME TypeOK, NEW p \in Plays, Leave(p)
    PROVE  /\ pc' \in [Plays -> {"idle"} \cup RotationTasks \cup DeploymentTasks]
           /\ pw' \in [Plays -> Passwords \cup {NoPw}]
           /\ changed' \in [Plays -> BOOLEAN]
           /\ alone' \subseteq Plays
  BY DEF TypeOK, Leave

LEMMA LeaveAlone ==
    ASSUME TypeOK, Alone, NEW p \in Plays, pc[p] # "idle", Leave(p),
           trouble' \/ (p \in alone /\ pg' = vault'),
           settled' => p \in alone /\ pg' = vault' /\ file' = vault'
    PROVE  Alone'
<1>1. alone \in {{}, {p}} /\ p \in Busy
  BY OnlyOne
<1>2. Busy' = Busy \ {p} /\ alone' = {}
  BY <1>1 DEF Leave, Busy, TypeOK
<1>3. p \in alone => Busy' = {}
  BY <1>2 DEF Alone
<1> QED
  BY <1>2, <1>3 DEF Alone

LEMMA FailAlone ==
    ASSUME TypeOK, Alone, NEW p \in Plays, pc[p] # "idle", Fail(p)
    PROVE  Alone'
  BY LeaveAlone, OnlyOne DEF Fail

(* A step of a play past or before the restart leaves Due as it was.       *)
LEMMA StepDue ==
    ASSUME TypeOK, Due, NEW p \in Plays, pc[p] # "restart",
           Leave(p) \/ (UNCHANGED changed /\ \E task \in Tasks : Goto(p, task)),
           UNCHANGED <<running, file, half>>
    PROVE  Due'
  BY DEF Due, Leave, Goto, TypeOK
------------------------------------------------------------------------------
LEMMA RotationStep ==
    ASSUME IInv, NEW p \in Plays, Alter(p) \/ ReadBase(p) \/ Write(p)
    PROVE  IInv'
<1> USE DEF IInv, At
<1>1. CASE Alter(p)
  <2>1. CASE Fail(p)
    <3>1. /\ Leave(p) /\ trouble' = TRUE /\ pc[p] = "alter"
          /\ UNCHANGED <<settled, vault, file, running, half, cuts>>
      BY <1>1, <2>1 DEF Alter, Fail
    <3>2. pg' \in Passwords \cup {NoPw}
      BY <1>1 DEF Alter, Drawn, TypeOK
    <3>3. TypeOK'
      BY <3>1, <3>2, LeaveTyped DEF TypeOK
    <3> QED
      BY <2>1, <3>1, <3>3, FailAlone, StepDue
  <2>2. CASE ~Fail(p)
    <3>1. PICK new \in Drawn : pg' = new /\ Reads(p, new)
      BY <1>1, <2>2 DEF Alter
    <3>2. /\ Goto(p, "base") /\ UNCHANGED <<vault, file, running, changed, half, cuts>>
          /\ pc[p] = "alter" /\ "base" \in Tasks
      BY <1>1, <2>2 DEF Alter, Tasks, RotationTasks
    <3>3. TypeOK'
      BY <3>1, <3>2, GotoTyped DEF TypeOK, Reads, Drawn
    <3>4. Knows(p)'
      BY <3>1, <3>2 DEF Knows, Goto, Reads, TypeOK
    <3> QED
      BY <3>2, <3>3, <3>4, GotoAlone, StepDue
  <2> QED
    BY <2>1, <2>2
<1>2. CASE ReadBase(p)
  <2>1. CASE Fail(p)
    BY <1>2, <2>1, FailAlone, LeaveTyped, StepDue DEF ReadBase, Fail, TypeOK, places
  <2>2. CASE ~Fail(p)
    <3>1. /\ Goto(p, "write") /\ UNCHANGED <<places, pw, changed, half, cuts>>
          /\ pc[p] = "base" /\ "write" \in Tasks
      BY <1>2, <2>2 DEF ReadBase, Tasks, RotationTasks
    <3>2. TypeOK'
      BY <3>1, GotoTyped DEF TypeOK, places
    <3>3. p \in alone => Knows(p)'
      BY <3>1 DEF Knows, Alone, Goto, places, TypeOK
    <3> QED
      BY <3>1, <3>2, <3>3, GotoAlone, StepDue DEF places
  <2> QED
    BY <2>1, <2>2
<1>3. CASE Write(p)
  <2>1. TypeOK'
    BY <1>3, LeaveTyped DEF Write, TypeOK
  <2>2. trouble' \/ (p \in alone /\ pg' = vault')
    <3>1. p \in Busy
      BY <1>3, OnlyOne DEF Write
    <3> QED
      BY <1>3, <3>1 DEF Write, Alone, Knows
  <2>3. ~settled'
    BY <1>3, OnlyOne DEF Write
  <2>4. Due'
    BY <1>3, StepDue DEF Write
  <2> QED
    BY <1>3, <2>1, <2>2, <2>3, <2>4, LeaveAlone DEF Write
<1> QED
  BY <1>1, <1>2, <1>3

LEMMA DeploymentStep ==
    ASSUME IInv, NEW p \in Plays,
           \/ Get(p) \/ InitDocument(p) \/ ReRead(p) \/ Role(p)
           \/ Probe(p) \/ Sync(p) \/ Secrets(p)
    PROVE  IInv'
<1> USE DEF IInv, At
<1>1. CASE Get(p)
  <2>1. PICK task \in Tasks : Goto(p, task) /\ pc[p] = "get" /\ task \in {"init", "role"}
    BY <1>1 DEF Get, Tasks, DeploymentTasks
  <2>2. TypeOK'
    BY <1>1, <2>1, GotoTyped DEF Get, TypeOK, Reads, places
  <2>3. p \in alone => Knows(p)'
    BY <1>1, <2>1 DEF Get, Knows, Alone, Goto, TypeOK, Reads, places
  <2>4. Due'
    BY <1>1, <2>1, StepDue DEF Get, places
  <2> QED
    BY <2>1, <2>2, <2>3, <2>4, GotoAlone
<1>2. CASE InitDocument(p)
  <2>1. PICK task \in Tasks : Goto(p, task) /\ pc[p] = "init" /\ task \in {"reread"}
    BY <1>2 DEF InitDocument, Tasks, DeploymentTasks
  <2>2. TypeOK'
    BY <1>2, <2>1, GotoTyped DEF InitDocument, TypeOK, Drawn
  <2>3. p \in alone => Knows(p)'
    BY <1>2, <2>1 DEF InitDocument, Knows, Alone, Goto, TypeOK, Drawn
  <2>4. Due'
    BY <1>2, <2>1, StepDue DEF InitDocument
  <2> QED
    BY <2>1, <2>2, <2>3, <2>4, GotoAlone
<1>3. CASE ReRead(p)
  <2>1. PICK task \in Tasks : Goto(p, task) /\ pc[p] = "reread" /\ task \in {"role"}
    BY <1>3 DEF ReRead, Tasks, DeploymentTasks
  <2>2. TypeOK'
    BY <1>3, <2>1, GotoTyped DEF ReRead, TypeOK, Reads, places
  <2>3. p \in alone => Knows(p)'
    BY <1>3, <2>1 DEF ReRead, Knows, Alone, Goto, TypeOK, Reads, places
  <2>4. Due'
    BY <1>3, <2>1, StepDue DEF ReRead, places
  <2> QED
    BY <2>1, <2>2, <2>3, <2>4, GotoAlone
<1>4. CASE Role(p)
  <2>1. PICK task \in Tasks : Goto(p, task) /\ pc[p] = "role" /\ task \in {"create", "probe"}
    BY <1>4 DEF Role, Tasks, DeploymentTasks
  <2>2. TypeOK'
    BY <1>4, <2>1, GotoTyped DEF Role, TypeOK, places
  <2>3. p \in alone => Knows(p)'
    BY <1>4, <2>1 DEF Role, Knows, Alone, Goto, TypeOK, places
  <2>4. Due'
    BY <1>4, <2>1, StepDue DEF Role, places
  <2> QED
    BY <2>1, <2>2, <2>3, <2>4, GotoAlone
<1>5. CASE Probe(p)
  <2>1. PICK task \in Tasks : Goto(p, task) /\ pc[p] = "probe" /\ task \in {"secrets", "sync"}
    BY <1>5 DEF Probe, Tasks, DeploymentTasks
  <2>2. TypeOK'
    BY <1>5, <2>1, GotoTyped DEF Probe, TypeOK, places
  <2>3. p \in alone => Knows(p)'
    BY <1>5, <2>1 DEF Probe, Knows, Alone, Goto, TypeOK, places
  <2>4. Due'
    BY <1>5, <2>1, StepDue DEF Probe, places
  <2> QED
    BY <2>1, <2>2, <2>3, <2>4, GotoAlone
<1>6. CASE Sync(p)
  <2>1. PICK task \in Tasks : Goto(p, task) /\ pc[p] = "sync" /\ task \in {"secrets"}
    BY <1>6 DEF Sync, Tasks, DeploymentTasks
  <2>2. TypeOK'
    BY <1>6, <2>1, GotoTyped DEF Sync, TypeOK
  <2>3. p \in alone => Knows(p)'
    BY <1>6, <2>1 DEF Sync, Knows, Alone, Goto, TypeOK
  <2>4. Due'
    BY <1>6, <2>1, StepDue DEF Sync
  <2> QED
    BY <2>1, <2>2, <2>3, <2>4, GotoAlone
<1>7. CASE Secrets(p)
  <2>1. PICK task \in Tasks : Goto(p, task) /\ pc[p] = "secrets" /\ task \in {"render"}
    BY <1>7 DEF Secrets, Tasks, DeploymentTasks
  <2>2. TypeOK'
    BY <1>7, <2>1, GotoTyped DEF Secrets, TypeOK, Reads, places
  <2>3. p \in alone => Knows(p)'
    BY <1>7, <2>1 DEF Secrets, Knows, Alone, Goto, TypeOK, Reads, places
  <2>4. Due'
    BY <1>7, <2>1, StepDue DEF Secrets, places
  <2> QED
    BY <2>1, <2>2, <2>3, <2>4, GotoAlone
<1> QED
  BY <1>1, <1>2, <1>3, <1>4, <1>5, <1>6, <1>7

LEMMA CreateStep ==
    ASSUME IInv, NEW p \in Plays, CreateRole(p)
    PROVE  IInv'
<1> USE DEF IInv, At
<1>1. CASE pg = NoPw
  <2>1. /\ Goto(p, "secrets") /\ pg' = pw[p] /\ pc[p] = "create" /\ "secrets" \in Tasks
        /\ UNCHANGED <<vault, file, running, pw, changed, half, cuts>>
    BY <1>1 DEF CreateRole, Tasks, DeploymentTasks
  <2>2. TypeOK'
    BY <2>1, GotoTyped DEF TypeOK
  <2>3. p \in alone => Knows(p)'
    BY <2>1 DEF Knows, Alone, Goto, TypeOK
  <2> QED
    BY <2>1, <2>2, <2>3, GotoAlone, StepDue
<1>2. CASE pg # NoPw
  BY <1>2, FailAlone, LeaveTyped, StepDue DEF CreateRole, Fail, TypeOK
<1> QED
  BY <1>1, <1>2

LEMMA RenderStep ==
    ASSUME IInv, NEW p \in Plays, Render(p)
    PROVE  IInv'
<1> USE DEF IInv, At
<1>1. Goto(p, "restart") /\ pc[p] = "render" /\ "restart" \in Tasks
  BY DEF Render, Tasks, DeploymentTasks
<1>2. TypeOK'
  BY <1>1, GotoTyped DEF Render, TypeOK
<1>3. p \in alone => Knows(p)'
  BY <1>1 DEF Render, Knows, Alone, Goto, TypeOK
<1>4. Due'
  <2>1. CASE file # pw[p]
    <3>1. pc'[p] = "restart" /\ changed'[p]
      BY <2>1, <1>1 DEF Render, Goto, TypeOK
    <3> QED
      BY <3>1 DEF Due
  <2>2. CASE file = pw[p]
    BY <2>2, <1>1 DEF Render, Due, Goto, TypeOK
  <2> QED
    BY <2>1, <2>2
<1> QED
  BY <1>1, <1>2, <1>3, <1>4, GotoAlone

LEMMA RestartStep ==
    ASSUME IInv, NEW p \in Plays, Restart(p)
    PROVE  IInv'
<1> USE DEF IInv, At
<1>1. Goto(p, "health") /\ pc[p] = "restart" /\ "health" \in Tasks
  BY DEF Restart, Tasks, DeploymentTasks
<1>2. TypeOK'
  BY <1>1, GotoTyped DEF Restart, TypeOK
<1>3. p \in alone => Knows(p)'
  BY <1>1 DEF Restart, Knows, Alone, Goto, TypeOK
<1>4. Due'
  <2>1. CASE changed[p] \/ running = NoPw
    BY <2>1 DEF Restart, Due
  <2>2. CASE ~(changed[p] \/ running = NoPw)
    BY <2>2, <1>1 DEF Restart, Due, Goto, TypeOK
  <2> QED
    BY <2>1, <2>2
<1> QED
  BY <1>1, <1>2, <1>3, <1>4, GotoAlone

LEMMA HealthStep ==
    ASSUME IInv, NEW p \in Plays, Health(p)
    PROVE  IInv'
<1> USE DEF IInv, At
<1>1. Leave(p) /\ pc[p] = "health" /\ UNCHANGED <<places, half, cuts>>
  BY DEF Health, Fail
<1>2. TypeOK'
  <2>1. settled' \in BOOLEAN /\ trouble' \in BOOLEAN
    <3>1. CASE Fail(p)
      BY <3>1 DEF Fail, TypeOK
    <3>2. CASE settled' = (p \in alone) /\ trouble' = IF p \in alone THEN FALSE ELSE trouble
      <4>1. trouble' \in BOOLEAN
        BY <3>2 DEF TypeOK
      <4>2. settled' \in BOOLEAN
        BY <3>2
      <4> QED
        BY <4>1, <4>2
    <3> QED
      BY <3>1, <3>2 DEF Health
  <2> QED
    BY <1>1, <2>1, LeaveTyped DEF TypeOK, places
<1>3. Due'
  BY <1>1, StepDue DEF places
<1>4. CASE Fail(p)
  BY <1>1, <1>2, <1>3, <1>4, FailAlone
<1>5. CASE ~Fail(p)
  <2>1. settled' = (p \in alone) /\ trouble' = IF p \in alone THEN FALSE ELSE trouble
    BY <1>5 DEF Health
  <2>2. p \in alone => pg' = vault' /\ file' = vault'
    BY <1>1 DEF Alone, Knows, places
  <2>3. ~trouble => p \in alone
    BY <1>1, OnlyOne DEF Alone
  <2> QED
    BY <1>1, <1>2, <1>3, <2>1, <2>2, <2>3, LeaveAlone
<1> QED
  BY <1>4, <1>5

LEMMA CutStep ==
    ASSUME IInv, NEW p \in Plays, Cut(p)
    PROVE  IInv'
<1> USE DEF IInv
<1>1. TypeOK'
  BY LeaveTyped, DbAssumption DEF Cut, Fail, TypeOK, places
<1>2. Due'
  BY DEF Cut, Fail, Leave, Due, places, TypeOK
<1> QED
  BY <1>1, <1>2, FailAlone DEF Cut

LEMMA BeginStep ==
    ASSUME IInv, NEW p \in Plays, NEW first \in {"alter", "get"}, Begin(p, first)
    PROVE  IInv'
<1> USE DEF IInv
<1>1. TypeOK'
  BY DEF Begin, TypeOK, RotationTasks, DeploymentTasks
<1>2. Due'
  BY DEF Begin, Due, TypeOK
<1>3. Busy' = Busy \cup {p}
  BY DEF Begin, Busy, TypeOK
<1>4. CASE Busy = {}
  <2>1. Knows(p)'
    BY <1>4 DEF Begin, Knows, Alone, TypeOK
  <2> QED
    BY <1>1, <1>2, <1>3, <1>4, <2>1 DEF Begin, Alone
<1>5. CASE Busy # {}
  BY <1>1, <1>2, <1>3, <1>5 DEF Begin, Alone
<1> QED
  BY <1>4, <1>5

LEMMA RebuildStep ==
    ASSUME IInv, Rebuild
    PROVE  IInv'
<1> USE DEF IInv
<1>1. TypeOK'
  <2>1. cuts' \in 0 .. MaxCuts
    BY DbAssumption DEF Rebuild, TypeOK
  <2>2. {pg', vault', file', running'} \subseteq Passwords \cup {NoPw}
    BY DEF Rebuild, TypeOK
  <2> QED
    BY <2>1, <2>2 DEF Rebuild, TypeOK
<1>2. Busy' = {} /\ alone' = {}
  BY DEF Rebuild, Busy, Alone
<1> QED
  BY <1>1, <1>2 DEF Rebuild, Alone, Due

LEMMA StepIInv == IInv /\ [Next]_vars => IInv'
<1> SUFFICES ASSUME IInv, [Next]_vars PROVE IInv'
  OBVIOUS
<1>1. CASE UNCHANGED vars
  BY <1>1 DEF vars, IInv, TypeOK, Alone, Due, Busy, Knows
<1> QED
  BY <1>1, RotationStep, DeploymentStep, CreateStep, RenderStep, RestartStep,
     HealthStep, CutStep, BeginStep, RebuildStep DEF Next

(* Types, what an undisturbed play knows, and who owes a file its password. *)
THEOREM Inductive == Spec => []IInv
  BY InitIInv, StepIInv, PTL DEF Spec

(* The type invariant.                                                     *)
THEOREM TypeCorrect == Spec => []TypeOK
  BY Inductive, PTL DEF IInv

(* With no play in progress the role has Vault's password, unless trouble  *)
(* came since a deployment on its own last ended well.                     *)
THEOREM VaultAlwaysTheTruth == Spec => []VaultIsTheTruth
<1>1. IInv => VaultIsTheTruth
  BY DEF IInv, Alone, VaultIsTheTruth
<1> QED
  BY <1>1, Inductive, PTL

(* A deployment on its own that ends well leaves one password everywhere,  *)
(* but for a restart an earlier play was cut off before.                   *)
THEOREM DeployedAlwaysUsable == Spec => []DeployedMeansUsable
<1>1. IInv => DeployedMeansUsable
  BY DEF IInv, Alone, Due, Busy, DeployedMeansUsable
<1> QED
  BY <1>1, Inductive, PTL
==============================================================================
