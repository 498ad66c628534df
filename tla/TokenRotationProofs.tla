------------------------- MODULE TokenRotationProofs -------------------------
(***************************************************************************)
(* Proofs about TokenRotation for every set of plays, every supply of keys *)
(* and every sequence of Vault policies.                                   *)
(***************************************************************************)
EXTENDS TokenRotation, FiniteSetTheorems, TLAPS

(* Ending a play keeps the shape of its record: every resting step is one  *)
(* of the program steps.                                                   *)
LEMMA EndType ==
    ASSUME NEW r \in Runs, NEW outcome \in Steps,
           run \in [Runs -> RunType], End(r, outcome)
    PROVE  run' \in [Runs -> RunType]
  BY DEF End, RunType, Idle, AnyKey

(* Likewise moving it on to another step.                                  *)
LEMMA GotoType ==
    ASSUME NEW r \in Runs, NEW step \in Steps,
           run \in [Runs -> RunType], Goto(r, step)
    PROVE  run' \in [Runs -> RunType]
  BY DEF Goto, RunType

(* A play's facts may take any value of their domain.                      *)
LEMMA FactsType ==
    ASSUME NEW rec \in RunType, NEW step \in Steps, NEW found \in BOOLEAN,
           NEW gen \in {NoKey, OobKey}, NEW token \in AnyKey
    PROVE  /\ [rec EXCEPT !.gen = gen, !.pc = step] \in RunType
           /\ [rec EXCEPT !.found = found, !.token = token, !.pc = step] \in RunType
           /\ [rec EXCEPT !.token = token, !.pc = step] \in RunType
  BY DEF RunType

(* The names used as steps are steps.                                      *)
LEMMA StepNames ==
    /\ {"idle", "done", "dry", "failed", "genesis", "read", "probe"} \subseteq Steps
    /\ {"user", "revoke", "mint", "store", "trail", "mirror", "verify"} \subseteq Steps
  BY DEF Steps, Resting, Minting, Written

(* Each step of a play keeps the types.                                    *)
LEMMA WorkType ==
    ASSUME NEW r \in Runs, TypeOK, Work(r)
    PROVE  TypeOK'
  <1> USE KeysAssumption, GenesisAssumption, OptionsAssumption, StepNames DEF refresh
  <1>1. CASE ResolveGenesis(r)
    <2> DEFINE doc == IF "read" \in policy THEN genDoc ELSE NoKey
               gen == IF GenFile # NoKey THEN GenFile
                      ELSE IF doc \notin Keys THEN doc ELSE NoKey
    <2>1. gen \in {NoKey, OobKey}
      BY DEF TypeOK
    <2> HIDE DEF gen
    <2>2. CASE gen = NoKey
      <3>1. End(r, "failed")
        BY <1>1, <2>2 DEF ResolveGenesis, Fail, gen
      <3> QED BY <1>1, <3>1, EndType DEF ResolveGenesis, TypeOK
    <2>3. CASE gen # NoKey
      <3>1. run' = [run EXCEPT ![r] = [@ EXCEPT !.gen = gen, !.pc = "read"]]
        BY <1>1, <2>3 DEF ResolveGenesis, gen
      <3>2. run' \in [Runs -> RunType]
        BY <2>1, <3>1, FactsType DEF TypeOK
      <3> QED BY <1>1, <3>2 DEF ResolveGenesis, TypeOK
    <2> QED BY <2>2, <2>3
  <1>2. CASE ReadStored(r)
    <2> DEFINE stored == IF "read" \in policy THEN vaultKey ELSE NoKey
               next == [run[r] EXCEPT !.found = stored # NoKey, !.token = stored,
                           !.pc = IF stored = NoKey THEN "user" ELSE "probe"]
    <2>1. CASE End(r, "dry")
      BY <1>2, <2>1, EndType DEF ReadStored, TypeOK
    <2>2. CASE run' = [run EXCEPT ![r] = next]
      <3>1. next \in RunType
        <4>1. stored \in AnyKey /\ run[r] \in RunType
          BY DEF TypeOK, AnyKey
        <4> HIDE DEF stored
        <4> QED BY <4>1, FactsType
      <3>2. run' \in [Runs -> RunType]
        BY <2>2, <3>1 DEF TypeOK
      <3> QED BY <1>2, <3>2 DEF ReadStored, TypeOK
    <2> QED BY <1>2, <2>1, <2>2 DEF ReadStored
  <1>3. CASE Probe(r)
    BY <1>3, GotoType DEF Probe, TypeOK
  <1>4. CASE EnsureUser(r)
    BY <1>4, GotoType DEF EnsureUser, TypeOK
  <1>5. CASE Revoke(r)
    BY <1>5, GotoType DEF Revoke, TypeOK
  <1>6. CASE Mint(r)
    <2>1. CASE Fail(r)
      BY <1>6, <2>1, EndType DEF Mint, Fail, TypeOK
    <2>2. ASSUME NEW k \in Keys, fwKeys' = fwKeys \cup {k},
                 run' = [run EXCEPT ![r] = [@ EXCEPT !.token = k, !.pc = "store"]]
          PROVE  TypeOK'
      <3>1. run' \in [Runs -> RunType]
        BY <2>2, FactsType DEF TypeOK, AnyKey
      <3> QED BY <1>6, <2>2, <3>1 DEF Mint, TypeOK
    <2> QED BY <1>6, <2>1, <2>2 DEF Mint
  <1>7. CASE Store(r)
    BY <1>7, EndType, GotoType DEF Store, Fail, TypeOK, RunType
  <1>8. CASE Trail(r)
    <2>1. [of |-> run[r].token, reason |-> Reason(r)] \in [of : AnyKey, reason : Reasons]
      BY DEF TypeOK, RunType, Reason, Reasons
    <2> QED BY <1>8, <2>1, EndType, GotoType DEF Trail, Fail, TypeOK
  <1>9. CASE Mirror(r)
    BY <1>9, GotoType DEF Mirror, TypeOK, RunType
  <1>10. CASE Verify(r)
    BY <1>10, EndType DEF Verify, TypeOK
  <1> QED BY <1>1, <1>2, <1>3, <1>4, <1>5, <1>6, <1>7, <1>8, <1>9, <1>10 DEF Work

(* The type invariant of the role: every reachable state keeps the domains,*)
(* and the genesis credential in use is never the service user's own.      *)
THEOREM TypeCorrect == Spec => []TypeOK
  <1> USE KeysAssumption, GenesisAssumption, OptionsAssumption DEF refresh
  <1>1. Init => TypeOK
    <2> SUFFICES ASSUME Init PROVE TypeOK
      OBVIOUS
    <2>1. run \in [Runs -> RunType]
      BY StepNames DEF Init, RunType, Idle, AnyKey
    <2>2. offline \in AnyKey /\ overtaken \in BOOLEAN
      BY DEF Init, AnyKey
    <2> QED BY <2>1, <2>2 DEF Init, TypeOK, AnyKey, Reasons
  <1>2. TypeOK /\ [Next]_vars => TypeOK'
    <2> SUFFICES ASSUME TypeOK, [Next]_vars PROVE TypeOK'
      OBVIOUS
    <2>1. ASSUME NEW r \in Runs, Start(r) PROVE TypeOK'
      <3>1. PICK forced, dry \in BOOLEAN :
               run' = [run EXCEPT ![r] = [Idle EXCEPT !.pc = "genesis",
                                          !.forced = forced, !.dry = dry]]
        BY <2>1 DEF Start
      <3>2. [Idle EXCEPT !.pc = "genesis", !.forced = forced, !.dry = dry] \in RunType
        BY StepNames DEF Idle, RunType, AnyKey
      <3>3. run' \in [Runs -> RunType]
        BY <3>1, <3>2 DEF TypeOK
      <3> QED BY <2>1, <3>3 DEF Start, TypeOK
    <2>2. ASSUME NEW r \in Runs, Rebuild(r) PROVE TypeOK'
      BY <2>2, StepNames DEF Rebuild, TypeOK, RunType, Idle, AnyKey
    <2>3. ASSUME NEW r \in Runs, Work(r) PROVE TypeOK'
      BY <2>3, WorkType
    <2>4. ASSUME NEW r \in Runs, Stop(r) PROVE TypeOK'
      <3>1. run' \in [Runs -> RunType]
        BY <2>4, EndType, StepNames DEF Stop, Fail, TypeOK
      <3> QED BY <2>4, <3>1 DEF Stop, TypeOK
    <2>5. CASE Drift
      BY <2>5 DEF Drift, TypeOK
    <2>6. CASE RefreshMirror
      BY <2>6 DEF RefreshMirror, ReadSources, RewriteCopy, RefreshStops, TypeOK, AnyKey
    <2>7. CASE UNCHANGED vars
      BY <2>7 DEF vars, refresh, TypeOK
    <2> QED BY <2>1, <2>2, <2>3, <2>4, <2>5, <2>6, <2>7 DEF Next
  <1> QED BY <1>1, <1>2, PTL DEF Spec

------------------------------------------------------------------------------
(* A play that a step leaves alone stays unsettled as long as the token    *)
(* document does.                                                          *)
LEMMA UnsettledStays ==
    ASSUME NEW r \in Runs, Unsettled(r), run'[r] = run[r], vaultKey' = vaultKey
    PROVE  Unsettled(r)'
  BY DEF Unsettled

(* A step that leaves the play it moves unsettled keeps the invariant.     *)
LEMMA MoverUnsettled ==
    ASSUME NEW r \in Runs, Unsettled(r)'
    PROVE  RefusedTokenIsNoticed'
  BY DEF RefusedTokenIsNoticed

LEMMA EndUnsettled ==
    ASSUME NEW r \in Runs, TypeOK, Fail(r) \/ End(r, "dry")
    PROVE  RefusedTokenIsNoticed'
  <1>1. run'[r].pc \in {"failed", "dry"}
    BY DEF Fail, End, Idle, TypeOK
  <1> QED BY <1>1, MoverUnsettled DEF Unsettled

(* The steps before the first write leave their play unsettled, whatever   *)
(* the firewall and Vault hold.                                            *)
LEMMA EarlyStep ==
    ASSUME NEW r \in Runs, TypeOK,
           ResolveGenesis(r) \/ ReadStored(r) \/ EnsureUser(r) \/ Revoke(r)
              \/ Mint(r) \/ Store(r)
    PROVE  RefusedTokenIsNoticed'
  <1>1. CASE Fail(r) \/ End(r, "dry")
    BY <1>1, EndUnsettled
  <1>2. CASE ~(Fail(r) \/ End(r, "dry"))
    <2> SUFFICES Unsettled(r)'
      BY MoverUnsettled
    <2>1. CASE ResolveGenesis(r)
      <3>1. run'[r].pc = "read"
        BY <1>2, <2>1 DEF ResolveGenesis, TypeOK, RunType
      <3> QED BY <3>1 DEF Unsettled
    <2>2. CASE ReadStored(r)
      <3>1. run'[r].pc = "user" \/ (run'[r].pc = "probe" /\ run'[r].token = vaultKey')
        BY <1>2, <2>2 DEF ReadStored, TypeOK, RunType
      <3> QED BY <3>1 DEF Unsettled, Minting
    <2>3. CASE EnsureUser(r)
      <3>1. run'[r].pc = "revoke"
        BY <1>2, <2>3 DEF EnsureUser, Goto, TypeOK, RunType
      <3> QED BY <3>1 DEF Unsettled, Minting
    <2>4. CASE Revoke(r)
      <3>1. run'[r].pc = "mint"
        BY <1>2, <2>4 DEF Revoke, Goto, TypeOK, RunType
      <3> QED BY <3>1 DEF Unsettled, Minting
    <2>5. CASE Mint(r)
      <3>1. run'[r].pc = "store"
        BY <1>2, <2>5 DEF Mint, TypeOK, RunType
      <3> QED BY <3>1 DEF Unsettled, Minting
    <2>6. CASE Store(r)
      <3>1. run'[r].pc = "trail" /\ run'[r].token = vaultKey'
        BY <1>2, <2>6 DEF Store, Goto, TypeOK, RunType
      <3> QED BY <3>1 DEF Unsettled, Written
    <2> QED BY <2>1, <2>2, <2>3, <2>4, <2>5, <2>6
  <1> QED BY <1>1, <1>2

(* The other steps touch neither the keys nor the token document: a play   *)
(* they do not move stays unsettled, and the one they move either keeps    *)
(* the refused token it holds, to verify it later, or fails on it.         *)
LEMMA LateStep ==
    ASSUME NEW r \in Runs, TypeOK, RefusedTokenIsNoticed,
           Probe(r) \/ Trail(r) \/ Mirror(r) \/ Verify(r)
    PROVE  RefusedTokenIsNoticed'
  <1>1. fwKeys' = fwKeys /\ vaultKey' = vaultKey
    BY DEF Probe, Trail, Mirror, Verify
  <1>2. \A s \in Runs \ {r} : run'[s] = run[s]
    BY DEF Probe, Trail, Mirror, Verify, Goto, Fail, End, TypeOK
  <1>3. CASE Served \/ vaultKey = NoKey
    BY <1>1, <1>3 DEF RefusedTokenIsNoticed, Served
  <1>4. ASSUME NEW s \in Runs \ {r}, Unsettled(s) PROVE RefusedTokenIsNoticed'
    BY <1>1, <1>2, <1>4, UnsettledStays DEF RefusedTokenIsNoticed
  <1>5. CASE Unsettled(r) /\ ~Served
    <2>1. run[r].token = vaultKey
      BY <1>5 DEF Unsettled, Probe, Trail, Mirror, Verify, At, Minting
    <2>2. CASE Probe(r)
      <3>1. run'[r].pc \in {"user", "verify"} /\ run'[r].token = vaultKey'
        BY <1>1, <2>1, <2>2 DEF Probe, Goto, TypeOK, RunType
      <3> QED BY <3>1, MoverUnsettled DEF Unsettled, Minting
    <2>3. CASE Trail(r) \/ Mirror(r)
      <3>1. CASE Fail(r)
        BY <3>1, EndUnsettled
      <3>2. CASE ~Fail(r)
        <4>1. run'[r].pc \in {"mirror", "verify"} /\ run'[r].token = vaultKey'
          BY <1>1, <2>1, <2>3, <3>2 DEF Trail, Mirror, Goto, TypeOK, RunType
        <4> QED BY <4>1, MoverUnsettled DEF Unsettled, Written
      <3> QED BY <3>1, <3>2
    <2>4. CASE Verify(r)
      <3>1. Fail(r)
        BY <1>5, <2>1, <2>4 DEF Verify, Served, Fail
      <3> QED BY <3>1, EndUnsettled
    <2> QED BY <2>2, <2>3, <2>4
  <1> QED BY <1>3, <1>4, <1>5 DEF RefusedTokenIsNoticed

(* A refused token in Vault is always some play's unfinished or failed     *)
(* business.                                                               *)
THEOREM RefusedTokenIsAlwaysNoticed == Spec => []RefusedTokenIsNoticed
  <1>1. Init => RefusedTokenIsNoticed
    BY DEF Init, RefusedTokenIsNoticed, Served, AnyKey
  <1>2. TypeOK /\ RefusedTokenIsNoticed /\ [Next]_vars => RefusedTokenIsNoticed'
    <2> SUFFICES ASSUME TypeOK, RefusedTokenIsNoticed, [Next]_vars
                 PROVE  RefusedTokenIsNoticed'
      OBVIOUS
    <2>1. ASSUME NEW r \in Runs, Start(r) \/ Rebuild(r) PROVE RefusedTokenIsNoticed'
      <3>1. run'[r].pc = "genesis"
        BY <2>1 DEF Start, Rebuild, Idle, TypeOK
      <3> QED BY <3>1, MoverUnsettled DEF Unsettled
    <2>2. ASSUME NEW r \in Runs, Work(r) PROVE RefusedTokenIsNoticed'
      BY <2>2, EarlyStep, LateStep DEF Work
    <2>3. ASSUME NEW r \in Runs, Stop(r) PROVE RefusedTokenIsNoticed'
      BY <2>3, EndUnsettled DEF Stop
    <2>4. CASE Drift \/ RefreshMirror \/ UNCHANGED vars
      <3>1. fwKeys' = fwKeys /\ vaultKey' = vaultKey /\ run' = run
        BY <2>4 DEF Drift, RefreshMirror, ReadSources, RewriteCopy, RefreshStops,
           vars, refresh
      <3> QED BY <3>1 DEF RefusedTokenIsNoticed, Served, Unsettled
    <2> QED BY <2>1, <2>2, <2>3, <2>4 DEF Next
  <1> QED BY <1>1, <1>2, TypeCorrect, PTL DEF Spec

(* At rest, with every play ended well, the token Vault hands out is one   *)
(* the firewall accepts - for any number of plays at once, however often   *)
(* they are cut off, with any policy Vault may apply.                      *)
THEOREM TokenServedAtRest == Spec => []ServedAtRest
  <1>1. RefusedTokenIsNoticed => ServedAtRest
    BY DEF RefusedTokenIsNoticed, ServedAtRest, Quiet, Unsettled, Minting, Written
  <1> QED BY <1>1, RefusedTokenIsAlwaysNoticed, PTL

------------------------------------------------------------------------------
(* A play under --check never gets to the steps that write.                *)
PreviewStaysOut == \A r \in Runs : run[r].dry => run[r].pc \notin Minting \cup Written

(* A step of a play keeps a preview out of them.                           *)
LEMMA WorkStaysOut ==
    ASSUME NEW r \in Runs, TypeOK, PreviewStaysOut, Work(r)
    PROVE  PreviewStaysOut'
  <1>1. \A s \in Runs \ {r} : run'[s] = run[s]
    BY DEF Work, ResolveGenesis, ReadStored, Probe, EnsureUser, Revoke, Mint, Store, Trail,
           Mirror, Verify, Goto, Fail, End, TypeOK
  <1>2. SUFFICES run'[r].dry => run'[r].pc \notin Minting \cup Written
    BY <1>1 DEF PreviewStaysOut
  <1>3. CASE ResolveGenesis(r) \/ ReadStored(r) \/ Probe(r) \/ Verify(r)
    <2>1. CASE ResolveGenesis(r)
      <3>1. run'[r].pc \in {"failed", "read"}
        BY <2>1 DEF ResolveGenesis, Fail, End, Idle, TypeOK, RunType
      <3> QED BY <3>1 DEF Minting, Written
    <2>2. CASE ReadStored(r)
      <3>1. \/ run'[r].dry = FALSE
            \/ run'[r].dry = run[r].dry /\ (run'[r].pc = "probe" \/ ~run[r].dry)
        BY <2>2 DEF ReadStored, End, Idle, TypeOK, RunType
      <3> QED BY <3>1 DEF Minting, Written
    <2>3. CASE Probe(r)
      <3>1. run'[r].dry = run[r].dry /\ (run[r].dry => run'[r].pc = "verify")
        BY <2>3 DEF Probe, Goto, TypeOK, RunType
      <3> QED BY <3>1 DEF Minting, Written
    <2>4. CASE Verify(r)
      BY <2>4 DEF Verify, Fail, End, Idle, TypeOK
    <2> QED BY <1>3, <2>1, <2>2, <2>3, <2>4
  <1>4. CASE \/ EnsureUser(r) \/ Revoke(r) \/ Mint(r) \/ Store(r) \/ Trail(r) \/ Mirror(r)
    <2>1. run[r].pc \in Minting \cup Written
      BY <1>4 DEF EnsureUser, Revoke, Mint, Store, Trail, Mirror, At, Minting, Written
    <2>2. ~run[r].dry
      BY <2>1 DEF PreviewStaysOut
    <2>3. CASE Fail(r)
      BY <2>3 DEF Fail, End, Idle, TypeOK
    <2>4. CASE Mint(r) /\ ~Fail(r)
      BY <2>2, <2>4 DEF Mint, TypeOK, RunType
    <2>5. CASE ~Mint(r) /\ ~Fail(r)
      <3>1. \/ Goto(r, "revoke") \/ Goto(r, "mint") \/ Goto(r, "trail") \/ Goto(r, "mirror")
            \/ Goto(r, "verify")
        BY <1>4, <2>5 DEF EnsureUser, Revoke, Store, Trail, Mirror
      <3> QED BY <2>2, <3>1 DEF Goto, TypeOK, RunType
    <2> QED BY <2>3, <2>4, <2>5
  <1> QED BY <1>3, <1>4 DEF Work

(* A preview changes neither the firewall nor Vault nor the mirror, for    *)
(* any number of plays beside it and whatever Vault grants meanwhile.      *)
THEOREM PreviewNeverWrites == Spec => PreviewWritesNothing
  <1>1. Init => PreviewStaysOut
    BY DEF Init, PreviewStaysOut, Idle
  <1>2. TypeOK /\ PreviewStaysOut /\ [Next]_vars => PreviewStaysOut'
    <2> SUFFICES ASSUME TypeOK, PreviewStaysOut, [Next]_vars PROVE PreviewStaysOut'
      OBVIOUS
    <2>1. ASSUME NEW r \in Runs, Start(r) \/ Rebuild(r) \/ Stop(r) PROVE PreviewStaysOut'
      <3>1. \A s \in Runs \ {r} : run'[s] = run[s]
        BY <2>1 DEF Start, Rebuild, Stop, Fail, End, TypeOK
      <3>2. run'[r].pc \in {"genesis", "failed"}
        BY <2>1 DEF Start, Rebuild, Stop, Fail, End, Idle, TypeOK
      <3> QED BY <3>1, <3>2 DEF PreviewStaysOut, Minting, Written
    <2>2. CASE Drift \/ RefreshMirror \/ UNCHANGED vars
      BY <2>2 DEF Drift, RefreshMirror, ReadSources, RewriteCopy, RefreshStops,
           vars, refresh, PreviewStaysOut
    <2> QED BY <2>1, <2>2, WorkStaysOut DEF Next
  <1>3. /\ TypeOK /\ PreviewStaysOut /\ [Next]_vars
        => [\A r \in Runs : run[r].dry /\ InFlight(r) /\ run'[r] # run[r]
               => UNCHANGED <<fwKeys, svcUser, vaultKey, trail, mirror>>]_vars
    <2> SUFFICES ASSUME TypeOK, PreviewStaysOut, [Next]_vars,
                        NEW r \in Runs, run[r].dry, InFlight(r), run'[r] # run[r]
                 PROVE  UNCHANGED <<fwKeys, svcUser, vaultKey, trail, mirror>>
      OBVIOUS
    <2>1. run[r].pc \notin Minting \cup Written
      BY DEF PreviewStaysOut
    <2>2. ASSUME NEW s \in Runs, Start(s) \/ Rebuild(s) \/ Stop(s)
          PROVE  UNCHANGED <<fwKeys, svcUser, vaultKey, trail, mirror>>
      <3>1. s = r
        BY <2>2 DEF Start, Rebuild, Stop, Fail, End, TypeOK
      <3> QED BY <2>2, <3>1 DEF Start, Rebuild, Stop
    <2>3. ASSUME NEW s \in Runs, Work(s)
          PROVE  UNCHANGED <<fwKeys, svcUser, vaultKey, trail, mirror>>
      <3>1. s = r
        BY <2>3 DEF Work, ResolveGenesis, ReadStored, Probe, EnsureUser, Revoke, Mint, Store,
                    Trail, Mirror, Verify, Goto, Fail, End, TypeOK
      <3>2. ResolveGenesis(r) \/ ReadStored(r) \/ Probe(r) \/ Verify(r)
        BY <2>1, <2>3, <3>1 DEF Work, EnsureUser, Revoke, Mint, Store, Trail, Mirror, At,
                                Minting, Written
      <3> QED BY <3>2 DEF ResolveGenesis, ReadStored, Probe, Verify
    <2>4. CASE Drift \/ RefreshMirror \/ UNCHANGED vars
      BY <2>4 DEF Drift, RefreshMirror, ReadSources, RewriteCopy, RefreshStops,
           vars, refresh
    <2> QED BY <2>2, <2>3, <2>4 DEF Next
  <1> QED BY <1>1, <1>2, <1>3, TypeCorrect, PTL DEF Spec, PreviewWritesNothing

------------------------------------------------------------------------------
(* One play at a time.  The play knows what Vault holds once it has read   *)
(* it; before it mints no key is valid; and a genesis document that names  *)
(* the service user's own key lets no play past its first step.            *)
AloneInv ==
    /\ genDoc \in Keys => \A r \in Runs : run[r].pc \in {"idle", "failed", "genesis"}
    /\ genDoc \notin Keys => \A k, l \in fwKeys : k = l
    /\ \A r \in Runs :
          /\ run[r].pc = "mint" => fwKeys = {}
          /\ run[r].pc \in {"probe", "trail", "mirror", "verify"} => run[r].token = vaultKey
          /\ run[r].pc = "done" => vaultKey \in fwKeys

Alone == (\A r, s \in Runs : r = s) /\ GenFile = NoKey

LEMMA AloneWork ==
    ASSUME Alone, NEW r \in Runs, TypeOK, AloneInv, Work(r)
    PROVE  AloneInv'
  <1>0. \A s \in Runs : s = r
    BY DEF Alone
  <1>1. CASE ResolveGenesis(r)
    <2>1. run'[r].pc = "failed" \/ (genDoc \notin Keys /\ run'[r].pc = "read")
      <3>1. CASE Fail(r)
        BY <3>1 DEF Fail, End, Idle, TypeOK
      <3>2. CASE ~Fail(r)
        <4>1. genDoc \notin Keys
          BY <1>1, <3>2, KeysAssumption DEF ResolveGenesis, Alone
        <4>2. run'[r].pc = "read"
          BY <1>1, <3>2 DEF ResolveGenesis, TypeOK, RunType
        <4> QED BY <4>1, <4>2
      <3> QED BY <3>1, <3>2
    <2>2. UNCHANGED <<fwKeys, genDoc, vaultKey>>
      BY <1>1 DEF ResolveGenesis
    <2> QED BY <1>0, <2>1, <2>2 DEF AloneInv
  <1>2. CASE ReadStored(r)
    <2>1. genDoc \notin Keys
      BY <1>2 DEF ReadStored, At, AloneInv
    <2>2. run'[r].pc \in {"dry", "user"} \/ (run'[r].pc = "probe" /\ run'[r].token = vaultKey)
      <3>1. CASE End(r, "dry")
        BY <3>1 DEF End, Idle, TypeOK
      <3>2. CASE ~End(r, "dry")
        <4>1. run'[r].pc = "user" \/ (run'[r].pc = "probe" /\ run'[r].token = vaultKey')
          BY <1>2, <3>2 DEF ReadStored, TypeOK, RunType
        <4> QED BY <1>2, <4>1 DEF ReadStored
      <3> QED BY <3>1, <3>2
    <2>3. UNCHANGED <<fwKeys, genDoc, vaultKey>>
      BY <1>2 DEF ReadStored
    <2> QED BY <1>0, <2>1, <2>2, <2>3 DEF AloneInv
  <1>3. CASE Probe(r) \/ EnsureUser(r)
    <2>1. genDoc \notin Keys
      BY <1>3 DEF Probe, EnsureUser, At, AloneInv
    <2>2. /\ run'[r].token = run[r].token
          /\ run'[r].pc \in {"user", "revoke"} \/ (run'[r].pc = "verify" /\ run[r].pc = "probe")
      BY <1>3 DEF Probe, EnsureUser, At, Goto, TypeOK, RunType
    <2> QED BY <1>0, <1>3, <2>1, <2>2 DEF Probe, EnsureUser, AloneInv
  <1>4. CASE Revoke(r)
    <2>1. genDoc \notin Keys
      BY <1>4 DEF Revoke, At, AloneInv
    <2>2. run'[r].pc = "mint"
      BY <1>4 DEF Revoke, Goto, TypeOK, RunType
    <2> QED BY <1>0, <1>4, <2>1, <2>2 DEF Revoke, AloneInv
  <1>5. CASE Mint(r)
    <2>1. genDoc \notin Keys /\ fwKeys = {}
      BY <1>5 DEF Mint, At, AloneInv
    <2>2. run'[r].pc = "store" \/ (run'[r].pc = "failed" /\ fwKeys' = fwKeys)
      BY <1>5 DEF Mint, Fail, End, Idle, TypeOK, RunType
    <2>3. fwKeys' = {} \/ \E k \in Keys : fwKeys' = {k}
      <3>1. \A k : {} \cup {k} = {k}
        OBVIOUS
      <3> QED BY <1>5, <2>1, <3>1 DEF Mint
    <2> QED BY <1>0, <1>5, <2>1, <2>2, <2>3 DEF Mint, AloneInv
  <1>6. CASE Store(r) \/ Trail(r) \/ Mirror(r)
    <2>1. genDoc \notin Keys
      BY <1>6 DEF Store, Trail, Mirror, At, AloneInv
    <2>2. \/ run'[r].pc = "failed"
          \/ run'[r].pc \in {"trail", "mirror", "verify"} /\ run'[r].token = vaultKey'
      <3>1. CASE Fail(r)
        BY <3>1 DEF Fail, End, Idle, TypeOK
      <3>2. CASE Store(r) /\ ~Fail(r)
        BY <3>2 DEF Store, Goto, TypeOK, RunType
      <3>3. CASE (Trail(r) \/ Mirror(r)) /\ ~Fail(r)
        <4>1. run[r].token = vaultKey /\ vaultKey' = vaultKey
          BY <3>3 DEF Trail, Mirror, At, AloneInv
        <4>2. Goto(r, "mirror") \/ Goto(r, "verify")
          BY <3>3 DEF Trail, Mirror
        <4> QED BY <4>1, <4>2 DEF Goto, TypeOK, RunType
      <3> QED BY <1>6, <3>1, <3>2, <3>3
    <2> QED BY <1>0, <1>6, <2>1, <2>2 DEF Store, Trail, Mirror, AloneInv
  <1>7. CASE Verify(r)
    <2>1. genDoc \notin Keys /\ run[r].token = vaultKey
      BY <1>7 DEF Verify, At, AloneInv
    <2>2. run'[r].pc \in {"failed", "dry"} \/ (run'[r].pc = "done" /\ vaultKey \in fwKeys)
      BY <1>7, <2>1 DEF Verify, End, Idle, TypeOK
    <2> QED BY <1>0, <1>7, <2>1, <2>2 DEF Verify, AloneInv
  <1> QED BY <1>1, <1>2, <1>3, <1>4, <1>5, <1>6, <1>7 DEF Work

LEMMA AloneAlways == ASSUME Alone PROVE Spec => []AloneInv
  <1>1. Init => AloneInv
    BY KeysAssumption DEF Init, AloneInv, Idle, AnyKey
  <1>2. TypeOK /\ AloneInv /\ [Next]_vars => AloneInv'
    <2> SUFFICES ASSUME TypeOK, AloneInv, [Next]_vars PROVE AloneInv'
      OBVIOUS
    <2>1. ASSUME NEW r \in Runs, Start(r) \/ Rebuild(r) \/ Stop(r) PROVE AloneInv'
      <3>1. run'[r].pc \in {"genesis", "failed"}
        BY <2>1 DEF Start, Rebuild, Stop, Fail, End, Idle, TypeOK
      <3>2. (fwKeys' = {} \/ fwKeys' = fwKeys) /\ genDoc' = genDoc
        BY <2>1 DEF Start, Rebuild, Stop
      <3> QED BY <3>1, <3>2 DEF AloneInv, Alone
    <2>2. CASE Drift \/ RefreshMirror \/ UNCHANGED vars
      BY <2>2 DEF Drift, RefreshMirror, ReadSources, RewriteCopy, RefreshStops,
           vars, refresh, AloneInv
    <2> QED BY <2>1, <2>2, AloneWork DEF Next
  <1> QED BY <1>1, <1>2, TypeCorrect, PTL DEF Spec

(* One play at a time, its genesis credential from Vault: with the last    *)
(* play ended well exactly one key is valid, the one Vault holds, whatever *)
(* was cut off before and whatever Vault granted it.                       *)
THEOREM OneKeyAlone == ASSUME Alone PROVE Spec => []OneKeyAtRest
  <1>1. TypeOK /\ AloneInv => OneKeyAtRest
    BY DEF AloneInv, OneKeyAtRest, At
  <1> QED BY <1>1, AloneAlways, TypeCorrect, PTL

------------------------------------------------------------------------------
(* With Vault's rights granted, too, an unforced play that is about to     *)
(* revoke has found Vault's token refused; and until a first play is cut   *)
(* off, the copies are behind only while a play is writing them, or where  *)
(* a refresh wrote the mirror after a rotation that it had not seen.       *)
Granted == Alone /\ \A p \in Policies : {"read", "write"} \subseteq p

GrantedInv ==
    \A r \in Runs :
       /\ run[r].pc \in {"user", "revoke"} /\ ~run[r].forced => ~Served
       /\ stops = 0 /\ ~overtaken /\ run[r].pc \notin {"trail", "mirror"}
             => mirror = vaultKey
       /\ stops = 0 /\ run[r].pc # "trail" => trail.of = vaultKey

LEMMA GrantedWork ==
    ASSUME Granted, NEW r \in Runs, TypeOK, AloneInv, GrantedInv, Work(r)
    PROVE  GrantedInv'
  <1>0. \A s \in Runs : s = r
    BY DEF Granted, Alone
  <1> USE DEF refresh
  <1>1. CASE ResolveGenesis(r)
    <2>1. run'[r].pc \in {"failed", "read"}
      BY <1>1 DEF ResolveGenesis, Fail, End, Idle, TypeOK, RunType
    <2>2. UNCHANGED <<fwKeys, vaultKey, trail, mirror, stops, overtaken>> /\ run[r].pc = "genesis"
      BY <1>1 DEF ResolveGenesis, At
    <2> QED BY <1>0, <2>1, <2>2 DEF GrantedInv
  <1>2. CASE ReadStored(r)
    <2>1. run'[r].pc \in {"dry", "probe"} \/ (run'[r].pc = "user" /\ vaultKey = NoKey)
      <3>1. CASE End(r, "dry")
        BY <3>1 DEF End, Idle, TypeOK
      <3>2. CASE ~End(r, "dry")
        <4>1. "read" \in policy
          BY DEF Granted, TypeOK
        <4>2. \/ vaultKey = NoKey
                 /\ run' = [run EXCEPT ![r] = [@ EXCEPT !.found = FALSE, !.token = NoKey,
                                                        !.pc = "user"]]
              \/ run' = [run EXCEPT ![r] = [@ EXCEPT !.found = TRUE, !.token = vaultKey,
                                                     !.pc = "probe"]]
          BY <1>2, <3>2, <4>1 DEF ReadStored
        <4> QED BY <4>2 DEF TypeOK, RunType
      <3> QED BY <3>1, <3>2
    <2>2. UNCHANGED <<fwKeys, vaultKey, trail, mirror, stops, overtaken>> /\ run[r].pc = "read"
      BY <1>2 DEF ReadStored, At
    <2>3. NoKey \notin fwKeys
      BY KeysAssumption DEF TypeOK
    <2> QED BY <1>0, <2>1, <2>2, <2>3 DEF GrantedInv, Served
  <1>3. CASE Probe(r)
    <2>1. run[r].token = vaultKey /\ run[r].pc = "probe"
      BY <1>3 DEF Probe, At, AloneInv
    <2>2. run'[r].forced = run[r].forced
      BY <1>3 DEF Probe, Goto, TypeOK, RunType
    <2>3. run'[r].pc = "verify" \/ (run'[r].pc = "user" /\ (run[r].forced \/ ~Served))
      BY <1>3, <2>1 DEF Probe, NeedMint, Goto, TypeOK, RunType, Served
    <2>4. UNCHANGED <<fwKeys, vaultKey, trail, mirror, stops, overtaken>>
      BY <1>3 DEF Probe
    <2> QED BY <1>0, <2>1, <2>2, <2>3, <2>4 DEF GrantedInv, Served
  <1>4. CASE EnsureUser(r) \/ Revoke(r) \/ Mint(r)
    <2>1. run[r].pc \in {"user", "revoke", "mint"}
      BY <1>4 DEF EnsureUser, Revoke, Mint, At
    <2>2. \/ run'[r].pc \in {"mint", "store", "failed"}
          \/ run'[r].pc = "revoke" /\ run[r].pc = "user" /\ run'[r].forced = run[r].forced
                 /\ fwKeys' = fwKeys
      <3>1. CASE EnsureUser(r)
        BY <3>1 DEF EnsureUser, At, Goto, TypeOK, RunType
      <3>2. CASE Revoke(r)
        BY <3>2 DEF Revoke, Goto, TypeOK, RunType
      <3>3. CASE Mint(r)
        BY <3>3 DEF Mint, Fail, End, Idle, TypeOK, RunType
      <3> QED BY <1>4, <3>1, <3>2, <3>3
    <2>3. UNCHANGED <<vaultKey, trail, mirror, stops, overtaken>>
      BY <1>4 DEF EnsureUser, Revoke, Mint
    <2> QED BY <1>0, <2>1, <2>2, <2>3 DEF GrantedInv, Served
  <1>5. CASE Store(r)
    <2>1. run'[r].pc = "trail"
      <3>1. "write" \in policy
        BY DEF Granted, TypeOK
      <3> QED BY <1>5, <3>1 DEF Store, Goto, TypeOK, RunType
    <2> QED BY <1>0, <2>1 DEF GrantedInv
  <1>6. CASE Trail(r)
    <2>1. run'[r].pc = "mirror" /\ trail'.of = run[r].token
      <3>1. "write" \in policy
        BY DEF Granted, TypeOK
      <3> QED BY <1>6, <3>1 DEF Trail, Goto, TypeOK, RunType
    <2>2. run[r].token = vaultKey /\ vaultKey' = vaultKey
      BY <1>6 DEF Trail, At, AloneInv
    <2> QED BY <1>0, <2>1, <2>2 DEF GrantedInv
  <1>7. CASE Mirror(r)
    <2>1. run'[r].pc = "verify"
      BY <1>7 DEF Mirror, Goto, TypeOK, RunType
    <2>2. run[r].token = vaultKey /\ run[r].pc = "mirror"
      BY <1>7 DEF Mirror, At, AloneInv
    <2>3. mirror' = run[r].token /\ UNCHANGED <<vaultKey, trail, stops>>
      BY <1>7 DEF Mirror
    <2> QED BY <1>0, <2>1, <2>2, <2>3 DEF GrantedInv
  <1>8. CASE Verify(r)
    <2>1. run'[r].pc \in {"failed", "dry", "done"}
      BY <1>8 DEF Verify, End, Idle, TypeOK
    <2>2. UNCHANGED <<vaultKey, trail, mirror, stops, overtaken>> /\ run[r].pc = "verify"
      BY <1>8 DEF Verify, At
    <2> QED BY <1>0, <2>1, <2>2 DEF GrantedInv
  <1> QED BY <1>1, <1>2, <1>3, <1>4, <1>5, <1>6, <1>7, <1>8 DEF Work

LEMMA GrantedAlways == ASSUME Granted PROVE Spec => []GrantedInv
  <1>1. Init => GrantedInv
    BY DEF Init, GrantedInv, Idle
  <1>2. TypeOK /\ AloneInv /\ GrantedInv /\ [Next]_vars => GrantedInv'
    <2> SUFFICES ASSUME TypeOK, AloneInv, GrantedInv, [Next]_vars PROVE GrantedInv'
      OBVIOUS
    <2>1. ASSUME NEW r \in Runs, Start(r) \/ Rebuild(r) PROVE GrantedInv'
      <3>1. run'[r].pc = "genesis" /\ run[r].pc \in Resting
        BY <2>1 DEF Start, Rebuild, InFlight, Idle, TypeOK
      <3>2. UNCHANGED <<vaultKey, trail, mirror, stops, overtaken>>
        BY <2>1 DEF Start, Rebuild, refresh
      <3> QED BY <3>1, <3>2 DEF GrantedInv, Granted, Alone, Resting
    <2>2. ASSUME NEW r \in Runs, Stop(r) PROVE GrantedInv'
      <3>1. run'[r].pc = "failed" /\ stops' # 0
        BY <2>2, OptionsAssumption DEF Stop, Fail, End, Idle, TypeOK
      <3> QED BY <3>1 DEF GrantedInv, Granted, Alone
    <2>3. CASE Drift \/ RefreshMirror \/ UNCHANGED vars
      <3>1. UNCHANGED <<fwKeys, vaultKey, trail, stops, run>>
            /\ \/ mirror' = mirror /\ overtaken' = overtaken
               \/ overtaken' \/ mirror' = vaultKey
        BY <2>3 DEF Drift, RefreshMirror, ReadSources, RewriteCopy, RefreshStops,
                    vars, refresh
      <3> QED BY <3>1 DEF GrantedInv, Served
    <2> QED BY <2>1, <2>2, <2>3, GrantedWork DEF Next
  <1>3. Spec => []AloneInv
    BY AloneAlways DEF Granted
  <1> QED BY <1>1, <1>2, <1>3, TypeCorrect, PTL DEF Spec

(* One play at a time that may read and write, and refreshes of the mirror *)
(* that read and write in the midst of it: plays that end well, none being *)
(* cut off, leave the trail at the key Vault holds, and the mirror, unless *)
(* a refresh that read Vault before a rotation was the last to write it.   *)
THEOREM CopiesFollow == ASSUME Granted PROVE Spec => []UncutCopiesFollow
  <1>1. GrantedInv => UncutCopiesFollow
    BY DEF GrantedInv, UncutCopiesFollow, At
  <1> QED BY <1>1, GrantedAlways, PTL

(* And a play nobody forced revokes only after the firewall refused the    *)
(* token that Vault holds.                                                 *)
THEOREM OnlyStaleAreRevoked == ASSUME Granted PROVE Spec => OnlyStaleRevoked
  <1>1. GrantedInv => [\A r \in Runs : At(r, "revoke") /\ ~run[r].forced /\ fwKeys' # fwKeys
                          => ~Served]_vars
    BY DEF GrantedInv, At
  <1> QED BY <1>1, GrantedAlways, PTL DEF OnlyStaleRevoked

------------------------------------------------------------------------------
(* Keys do not pile up.  A key in excess was minted by a play that had     *)
(* passed its revocation before another revoked, so a play about to mint   *)
(* counts like the key it is going to mint.                                *)
Minters == {r \in Runs : At(r, "mint")}

FewKeysInv ==
    /\ IsFiniteSet(fwKeys)
    /\ Cardinality(fwKeys) + Cardinality(Minters) <= Cardinality(Runs)

(* Any number of plays; a genesis document that names a key of the service *)
(* user puts that key beside Vault's from the start.                       *)
Few ==
    /\ IsFiniteSet(Runs) /\ Runs # {}
    /\ GenDocs \cap Keys = {} \/ Cardinality(Runs) >= 2

LEMMA MintersCount ==
    ASSUME Few
    PROVE  /\ IsFiniteSet(Minters) /\ Cardinality(Minters) \in Nat
           /\ Cardinality(Minters) <= Cardinality(Runs)
           /\ Cardinality(Runs) \in Nat /\ Cardinality(Runs) >= 1
  <1>1. Minters \in SUBSET Runs
    BY DEF Minters
  <1>2. Cardinality(Runs) \in Nat /\ Cardinality(Runs) # 0
    BY FS_CardinalityType, FS_EmptySet DEF Few
  <1>3. IsFiniteSet(Minters) /\ Cardinality(Minters) <= Cardinality(Runs)
    BY <1>1, FS_Subset DEF Few
  <1> QED BY <1>2, <1>3, FS_CardinalityType

(* A step by which nobody comes to mint, and no key is added, keeps the    *)
(* count.                                                                  *)
LEMMA NoneMore ==
    ASSUME Few, FewKeysInv, fwKeys' \subseteq fwKeys, Minters' \subseteq Minters
    PROVE  FewKeysInv'
  <1>1. IsFiniteSet(fwKeys') /\ Cardinality(fwKeys') <= Cardinality(fwKeys)
    BY FS_Subset DEF FewKeysInv
  <1>2. IsFiniteSet(Minters') /\ Cardinality(Minters') <= Cardinality(Minters)
    BY MintersCount, FS_Subset
  <1>3. /\ Cardinality(fwKeys) \in Nat /\ Cardinality(fwKeys') \in Nat
        /\ Cardinality(Minters) \in Nat /\ Cardinality(Minters') \in Nat
    BY <1>1, <1>2, MintersCount, FS_CardinalityType DEF FewKeysInv
  <1> QED BY <1>1, <1>2, <1>3, MintersCount DEF FewKeysInv

(* No key is valid: there is room for every play to mint.                  *)
LEMMA AllRevoked ==
    ASSUME Few, fwKeys' = {}
    PROVE  FewKeysInv'
  <1>1. Minters' \in SUBSET Runs
    BY DEF Minters
  <1>2. IsFiniteSet(Minters') /\ Cardinality(Minters') <= Cardinality(Runs)
    BY <1>1, FS_Subset DEF Few
  <1>3. Cardinality(Minters') \in Nat
    BY <1>2, FS_CardinalityType
  <1> QED BY <1>2, <1>3, FS_EmptySet DEF FewKeysInv

(* Minting makes a key of a play about to mint.                            *)
LEMMA MintCounts ==
    ASSUME Few, TypeOK, FewKeysInv, NEW r \in Runs, Mint(r)
    PROVE  FewKeysInv'
  <1>1. r \in Minters /\ Minters' = Minters \ {r}
    <2>1. \A s \in Runs \ {r} : run'[s] = run[s]
      BY DEF Mint, Fail, End, TypeOK
    <2>2. run'[r].pc \in {"store", "failed"}
      <3>1. CASE Fail(r)
        BY <3>1 DEF Fail, End, Idle, TypeOK
      <3>2. ASSUME NEW k \in Keys,
                   run' = [run EXCEPT ![r] = [@ EXCEPT !.token = k, !.pc = "store"]]
            PROVE  run'[r].pc = "store"
        BY <3>2 DEF TypeOK, RunType
      <3> QED BY <3>1, <3>2 DEF Mint
    <2>3. run[r].pc = "mint"
      BY DEF Mint, At
    <2> QED BY <2>1, <2>2, <2>3 DEF Minters, At
  <1>2. /\ IsFiniteSet(Minters') /\ Cardinality(Minters') = Cardinality(Minters) - 1
    BY <1>1, MintersCount, FS_RemoveElement
  <1>3. /\ IsFiniteSet(fwKeys')
        /\ Cardinality(fwKeys') \in Nat /\ Cardinality(fwKeys') <= Cardinality(fwKeys) + 1
    <2>1. Cardinality(fwKeys) \in Nat
      BY FS_CardinalityType DEF FewKeysInv
    <2>2. CASE fwKeys' = fwKeys
      BY <2>1, <2>2 DEF FewKeysInv
    <2>3. ASSUME NEW k, fwKeys' = fwKeys \cup {k}
          PROVE  /\ IsFiniteSet(fwKeys') /\ Cardinality(fwKeys') \in Nat
                 /\ Cardinality(fwKeys') <= Cardinality(fwKeys) + 1
      BY <2>1, <2>3, FS_AddElement DEF FewKeysInv
    <2> QED BY <2>2, <2>3 DEF Mint
  <1>4. Cardinality(fwKeys) \in Nat /\ Cardinality(Minters) \in Nat
    BY MintersCount, FS_CardinalityType DEF FewKeysInv
  <1> QED BY <1>2, <1>3, <1>4, MintersCount DEF FewKeysInv

(* However many plays overlap and however many are cut off between minting *)
(* and storing, no more keys are valid than there are plays.               *)
THEOREM KeysStayFew == ASSUME Few PROVE Spec => []FewKeys
  <1>1. Init => FewKeysInv
    <2> SUFFICES ASSUME Init PROVE FewKeysInv
      OBVIOUS
    <2>1. Minters = {}
      BY DEF Init, Minters, At, Idle
    <2>2. /\ IsFiniteSet({vaultKey, genDoc})
          /\ Cardinality({vaultKey, genDoc}) <= 2 /\ Cardinality({vaultKey, genDoc}) \in Nat
      <3>1. {vaultKey, genDoc} = {vaultKey} \cup {genDoc}
        OBVIOUS
      <3>2. IsFiniteSet({vaultKey}) /\ Cardinality({vaultKey}) = 1
        BY FS_Singleton
      <3>3. /\ IsFiniteSet({vaultKey} \cup {genDoc})
            /\ Cardinality({vaultKey} \cup {genDoc}) \in {1, 2}
        BY <3>2, FS_AddElement
      <3> QED BY <3>1, <3>3
    <2>3. IsFiniteSet(fwKeys) /\ Cardinality(fwKeys) <= 2 /\ Cardinality(fwKeys) \in Nat
      <3>1. fwKeys \in SUBSET {vaultKey, genDoc}
        BY DEF Init
      <3>2. IsFiniteSet(fwKeys) /\ Cardinality(fwKeys) <= Cardinality({vaultKey, genDoc})
        BY <2>2, <3>1, FS_Subset
      <3>3. Cardinality(fwKeys) \in Nat
        BY <3>2, FS_CardinalityType
      <3> QED BY <2>2, <3>2, <3>3
    <2>4. GenDocs \cap Keys = {} => Cardinality(fwKeys) <= 1
      <3> SUFFICES ASSUME GenDocs \cap Keys = {} PROVE Cardinality(fwKeys) <= 1
        OBVIOUS
      <3>1. fwKeys \in SUBSET {vaultKey}
        BY DEF Init
      <3>2. IsFiniteSet({vaultKey}) /\ Cardinality({vaultKey}) = 1
        BY FS_Singleton
      <3> QED BY <3>1, <3>2, FS_Subset
    <2>5. Cardinality(Minters) = 0
      BY <2>1, FS_EmptySet
    <2> QED BY <2>3, <2>4, <2>5, MintersCount DEF Few, FewKeysInv
  <1>2. TypeOK /\ FewKeysInv /\ [Next]_vars => FewKeysInv'
    <2> SUFFICES ASSUME TypeOK, FewKeysInv, [Next]_vars PROVE FewKeysInv'
      OBVIOUS
    <2>1. ASSUME NEW r \in Runs, Start(r) \/ Stop(r) PROVE FewKeysInv'
      <3>1. run'[r].pc # "mint" /\ \A s \in Runs \ {r} : run'[s] = run[s]
        BY <2>1 DEF Start, Stop, Fail, End, Idle, TypeOK
      <3>2. Minters' \subseteq Minters /\ fwKeys' = fwKeys
        BY <2>1, <3>1 DEF Minters, At, Start, Stop
      <3> QED BY <3>2, NoneMore
    <2>2. ASSUME NEW r \in Runs, Rebuild(r) \/ Revoke(r) PROVE FewKeysInv'
      BY <2>2, AllRevoked DEF Rebuild, Revoke
    <2>3. ASSUME NEW r \in Runs, Mint(r) PROVE FewKeysInv'
      BY <2>3, MintCounts
    <2>4. ASSUME NEW r \in Runs,
                 \/ ResolveGenesis(r) \/ ReadStored(r) \/ Probe(r) \/ EnsureUser(r)
                 \/ Store(r) \/ Trail(r) \/ Mirror(r) \/ Verify(r)
          PROVE  FewKeysInv'
      <3>1. \A s \in Runs \ {r} : run'[s] = run[s]
        BY <2>4 DEF ResolveGenesis, ReadStored, Probe, EnsureUser, Store, Trail, Mirror, Verify,
                    Goto, Fail, End, TypeOK
      <3>2. run'[r].pc # "mint"
        <4>1. CASE Fail(r) \/ End(r, "dry") \/ Verify(r)
          <5>1. run'[r].pc \in {"failed", "dry", "done"}
            BY <4>1 DEF Verify, Fail, End, Idle, TypeOK
          <5> QED BY <5>1
        <4>2. CASE ~Fail(r) /\ ~End(r, "dry") /\ (ResolveGenesis(r) \/ ReadStored(r))
          <5>1. CASE ResolveGenesis(r)
            <6>1. run'[r].pc = "read"
              BY <4>2, <5>1 DEF ResolveGenesis, TypeOK, RunType
            <6> QED BY <6>1
          <5>2. CASE ReadStored(r)
            <6> DEFINE stored == IF "read" \in policy THEN vaultKey ELSE NoKey
                       step == IF stored = NoKey THEN "user" ELSE "probe"
            <6>1. run' = [run EXCEPT ![r] = [@ EXCEPT !.found = stored # NoKey,
                                                 !.token = stored, !.pc = step]]
              BY <4>2, <5>2 DEF ReadStored
            <6>2. run[r] \in RunType /\ run \in [Runs -> RunType]
              BY DEF TypeOK
            <6> HIDE DEF stored
            <6>3. run'[r].pc = step
              BY <6>1, <6>2 DEF RunType
            <6> QED BY <6>3
          <5> QED BY <4>2, <5>1, <5>2
        <4>3. CASE ~Fail(r) /\ (\/ Probe(r) \/ EnsureUser(r) \/ Store(r) \/ Trail(r)
                                \/ Mirror(r))
          <5>1. PICK step \in {"user", "verify", "revoke", "trail", "mirror"} : Goto(r, step)
            BY <4>3 DEF Probe, EnsureUser, Store, Trail, Mirror
          <5>2. run'[r].pc = step
            BY <5>1 DEF Goto, TypeOK, RunType
          <5> QED BY <5>2
        <4> QED BY <2>4, <4>1, <4>2, <4>3
      <3>3. Minters' \subseteq Minters
        BY <3>1, <3>2 DEF Minters, At
      <3>4. fwKeys' = fwKeys
        BY <2>4 DEF ResolveGenesis, ReadStored, Probe, EnsureUser, Store, Trail, Mirror, Verify
      <3> QED BY <3>3, <3>4, NoneMore
    <2>5. CASE Drift \/ RefreshMirror \/ UNCHANGED vars
      <3>1. fwKeys' = fwKeys /\ Minters' = Minters
        BY <2>5 DEF Drift, RefreshMirror, ReadSources, RewriteCopy, RefreshStops,
           vars, refresh, Minters, At
      <3> QED BY <3>1, NoneMore
    <2> QED BY <2>1, <2>2, <2>3, <2>4, <2>5 DEF Next, Work
  <1>3. FewKeysInv => FewKeys
    <2> SUFFICES ASSUME FewKeysInv PROVE FewKeys
      OBVIOUS
    <2>1. Cardinality(fwKeys) \in Nat
      BY FS_CardinalityType DEF FewKeysInv
    <2> QED BY <2>1, MintersCount DEF FewKeysInv, FewKeys
  <1> QED BY <1>1, <1>2, <1>3, TypeCorrect, PTL DEF Spec

==============================================================================
