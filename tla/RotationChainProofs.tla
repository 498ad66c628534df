------------------------- MODULE RotationChainProofs -------------------------
(***************************************************************************)
(* Proofs about RotationChain for every supply of keys, every sequence of  *)
(* Vault policies and any number of failing units and power cuts.          *)
(***************************************************************************)
EXTENDS RotationChain, TokenRotationProofs

(* The rotate unit's play is a play of the role: what the chain does to    *)
(* the firewall, to Vault and to the mirror, TokenRotation allows, so that *)
(* everything proved of the role's plays holds of the chain's.             *)
THEOREM ChainIsARotation == ChainSpec => Spec
  <1>1. ChainInit => Init
    BY DEF ChainInit
  <1>2. [ChainNext]_allVars => [Next]_vars
    <2> SUFFICES ASSUME [ChainNext]_allVars PROVE [Next]_vars
      OBVIOUS
    <2>0. Chain \in Runs
      BY ChainAssumption
    <2>1. CASE StartPass
      <3>1. [Idle EXCEPT !.pc = "genesis", !.forced = TRUE]
            = [Idle EXCEPT !.pc = "genesis", !.forced = TRUE, !.dry = FALSE]
        <4>1. Idle \in RunType
          BY StepNames DEF Idle, RunType, AnyKey
        <4>2. Idle.dry = FALSE
          BY DEF Idle
        <4>3. ASSUME NEW rec \in RunType, rec.dry = FALSE
              PROVE  [rec EXCEPT !.pc = "genesis", !.forced = TRUE]
                     = [rec EXCEPT !.pc = "genesis", !.forced = TRUE, !.dry = FALSE]
          BY <4>3, StepNames DEF RunType
        <4> QED BY <4>1, <4>2, <4>3
      <3>2. Start(Chain)
        BY <2>1, <3>1 DEF StartPass, Start
      <3> QED BY <2>0, <3>2 DEF Next
    <2>2. CASE Rotate \/ PowerOff
      BY <2>0, <2>2 DEF Rotate, PowerOff, Next
    <2>3. CASE \/ RotateEnds \/ ConsumersRead \/ ConsumersRender \/ Check \/ Gate
               \/ WriteTime \/ LowerFlag \/ SignalFailed \/ \E u \in Units : UnitFails(u)
      BY <2>3 DEF RotateEnds, ConsumersRead, ConsumersRender, Check, Gate, WriteTime,
                  LowerFlag, SignalFailed, UnitFails
    <2>4. CASE PolicyDrift
      BY <2>4 DEF PolicyDrift, Next
    <2>5. CASE UNCHANGED allVars
      BY <2>5 DEF allVars, vars, refresh
    <2> QED BY <2>1, <2>2, <2>3, <2>4, <2>5 DEF ChainNext
  <1> QED BY <1>1, <1>2, PTL DEF ChainSpec, Spec

------------------------------------------------------------------------------
(* One unit runs at a time, and the play only inside its unit.             *)
OneUnit ==
    /\ active = {} \/ \E u \in Units : active = {u}
    /\ InFlight(Chain) => active = {"rotate"}

(* What each unit hands to the next: the rotation, nothing but its own     *)
(* end; the consumers, a copy that is Vault's token; the check, a result   *)
(* obtained with that token, accepted; the gate, that result, clean.       *)
Passing == {"rotate", "consumers", "check", "gate"}

Rendered == copy = vaultKey
CheckedWith(verdicts) == \E v \in verdicts : result = [of |-> vaultKey, verdict |-> v]

HandedOn ==
    /\ \A u \in Passing : u \in active => pending
    /\ cred # NoKey => "consumers" \in active /\ cred = vaultKey
    /\ "check" \in active => Rendered
    /\ "gate" \in active => Rendered /\ Served /\ CheckedWith({"clean", "changed", "none"})
    /\ "signal-ok" \in active => Rendered /\ Served /\ CheckedWith({"clean"})

(* A success once signalled stays true until the next pass begins.         *)
SuccessHolds == ~pending /\ vaultKey # NoKey => Served /\ Rendered

ChainInv == OneUnit /\ HandedOn /\ SuccessHolds /\ FailureIsTold

(* The names of the units are different words; handing over from the only  *)
(* unit leaves the other as the only one.                                  *)
LEMMA HandOverLeavesOne ==
    ASSUME OneUnit, NEW u \in active, NEW v \in Units
    PROVE  /\ active = {u}
           /\ HandOver(u, v) => active' = {v}
           /\ active \ {u} = {}
  BY DEF OneUnit, HandOver

(* The units behind the rotation leave the firewall and Vault alone.       *)
LEMMA UnitsKeepThePlay ==
    ASSUME NEW u \in active \ {"rotate"}, OneUnit, UNCHANGED vars
    PROVE  /\ ~InFlight(Chain)
           /\ ~InFlight(Chain)'
           /\ vaultKey' = vaultKey
           /\ Served' = Served
  BY DEF OneUnit, InFlight, Served, vars

(* The timer's pass: only the rotation is started, and nothing is signalled*)
(* until it is over.                                                       *)
LEMMA StartKeeps == ASSUME ChainInv, StartPass PROVE ChainInv'
  <1>1. active' = {"rotate"} /\ pending'
    BY DEF StartPass
  <1>2. cred' = NoKey
    BY DEF StartPass, ChainInv, HandedOn
  <1> QED BY <1>1, <1>2 DEF ChainInv, OneUnit, Units, HandedOn, SuccessHolds, FailureIsTold

(* A task of the rotation, or its being cut off.                           *)
LEMMA RotateKeeps == ASSUME ChainInv, Rotate PROVE ChainInv'
  <1>1. active = {"rotate"} /\ active' = active /\ pending /\ pending' /\ cred' = NoKey
    BY DEF Rotate, chainVars, ChainInv, OneUnit, HandedOn, Passing
  <1> QED BY <1>1 DEF ChainInv, OneUnit, Units, HandedOn, SuccessHolds, FailureIsTold

(* The rotation ends; the consumers' play has read nothing yet.            *)
LEMMA RotateEndsKeeps == ASSUME ChainInv, RotateEnds PROVE ChainInv'
  <1>1. /\ active' = {"consumers"} \/ active' = {"signal-failed"}
        /\ pending /\ pending' /\ cred' = NoKey /\ ~InFlight(Chain)'
    <2>1. active = {"rotate"}
      BY DEF RotateEnds, ChainInv, OneUnit
    <2> QED BY <2>1 DEF RotateEnds, HandOver, vars, InFlight, ChainInv, HandedOn, Passing
  <1> QED BY <1>1 DEF ChainInv, OneUnit, Units, HandedOn, SuccessHolds, FailureIsTold

(* The consumers read the token Vault holds ...                            *)
LEMMA ConsumersReadKeeps == ASSUME ChainInv, ConsumersRead PROVE ChainInv'
  <1>1. active = {"consumers"} /\ pending /\ pending'
    BY DEF ConsumersRead, ChainInv, OneUnit, HandedOn, Passing
  <1>2. vaultKey' = vaultKey /\ ~InFlight(Chain)'
    BY <1>1, UnitsKeepThePlay DEF ConsumersRead, ChainInv
  <1>3. \/ active' = {"consumers"} /\ cred' = vaultKey
        \/ active' = {"signal-failed"} /\ cred' = NoKey
    BY <1>1 DEF ConsumersRead, HandOver
  <1> QED BY <1>1, <1>2, <1>3
          DEF ChainInv, OneUnit, Units, HandedOn, Passing, SuccessHolds, FailureIsTold

(* ... and leave the job's copy at it.                                     *)
LEMMA ConsumersRenderKeeps == ASSUME ChainInv, ConsumersRender PROVE ChainInv'
  <1>1. active = {"consumers"} /\ pending /\ pending' /\ cred = vaultKey
    BY DEF ConsumersRender, ChainInv, OneUnit, HandedOn, Passing
  <1>2. vaultKey' = vaultKey /\ ~InFlight(Chain)'
    BY <1>1, UnitsKeepThePlay DEF ConsumersRender, ChainInv
  <1>3. active' = {"check"} /\ cred' = NoKey /\ Rendered'
    BY <1>1, <1>2 DEF ConsumersRender, HandOver, Rendered
  <1> QED BY <1>1, <1>2, <1>3
          DEF ChainInv, OneUnit, Units, HandedOn, Passing, SuccessHolds, FailureIsTold

(* The check runs with Vault's token, and passes only where it is accepted.*)
LEMMA CheckKeeps == ASSUME ChainInv, Check PROVE ChainInv'
  <1>1. active = {"check"} /\ pending /\ pending' /\ Rendered /\ cred' = NoKey
    BY DEF Check, ChainInv, OneUnit, HandedOn, Passing
  <1>2. vaultKey' = vaultKey /\ Served' = Served /\ ~InFlight(Chain)' /\ copy' = copy
    BY <1>1, UnitsKeepThePlay DEF Check, ChainInv
  <1>3. \/ active' = {"gate"} /\ Served /\ CheckedWith({"clean", "changed", "none"})'
        \/ active' = {"signal-failed"}
    BY <1>1, <1>2 DEF Check, HandOver, CheckedWith
  <1> QED BY <1>1, <1>2, <1>3
          DEF ChainInv, OneUnit, Units, HandedOn, Passing, Rendered, SuccessHolds, FailureIsTold

(* The gate passes a clean result on, and a skipped gate is a silent end.  *)
LEMMA GateKeeps == ASSUME ChainInv, Gate PROVE ChainInv'
  <1>1. /\ active = {"gate"} /\ pending /\ pending' /\ Rendered /\ Served /\ cred' = NoKey
        /\ CheckedWith({"clean", "changed", "none"})
    BY DEF Gate, ChainInv, OneUnit, HandedOn, Passing
  <1>2. /\ vaultKey' = vaultKey /\ Served' = Served /\ ~InFlight(Chain)'
        /\ copy' = copy /\ result' = result
    BY <1>1, UnitsKeepThePlay DEF Gate, ChainInv
  <1>3. \/ active' = {} /\ silent'
        \/ active' = {"signal-ok"} /\ CheckedWith({"clean"})
        \/ active' = {"signal-failed"}
    BY <1>1 DEF Gate, HandOver, CheckedWith
  <1> QED BY <1>1, <1>2, <1>3
          DEF ChainInv, OneUnit, Units, HandedOn, Passing, Rendered, CheckedWith, SuccessHolds,
              FailureIsTold

(* The success is signalled, first the time of it and then the flag.       *)
LEMMA SignalOkKeeps == ASSUME ChainInv, WriteTime \/ LowerFlag PROVE ChainInv'
  <1>1. active = {"signal-ok"} /\ Rendered /\ Served /\ cred' = NoKey /\ ~pending'
    BY DEF WriteTime, LowerFlag, ChainInv, OneUnit, HandedOn
  <1>2. /\ vaultKey' = vaultKey /\ Served' = Served /\ ~InFlight(Chain)'
        /\ copy' = copy /\ result' = result
    BY <1>1, UnitsKeepThePlay DEF WriteTime, LowerFlag, ChainInv
  <1>3. active' = {} \/ active' = {"signal-ok"}
    BY <1>1 DEF WriteTime, LowerFlag
  <1> QED BY <1>1, <1>2, <1>3
          DEF ChainInv, OneUnit, Units, HandedOn, Passing, Rendered, CheckedWith, SuccessHolds,
              FailureIsTold

(* A unit that fails, and the failure signal itself, change nothing but    *)
(* who is next and what monitoring is told.                                *)
LEMMA FailureKeeps ==
    ASSUME ChainInv, SignalFailed \/ \E u \in Units : UnitFails(u)
    PROVE  ChainInv'
  <1>1. PICK u \in active \ {"rotate"} : SignalFailed \/ UnitFails(u)
    BY DEF SignalFailed, UnitFails
  <1>2. UNCHANGED <<vars, copy, pending>>
    BY <1>1 DEF SignalFailed, UnitFails
  <1>3. vaultKey' = vaultKey /\ Served' = Served /\ ~InFlight(Chain)'
    BY <1>2, UnitsKeepThePlay DEF ChainInv
  <1>4. active = {u}
    BY HandOverLeavesOne DEF ChainInv, Units
  <1>5. cred' = NoKey
    BY <1>1, <1>4 DEF SignalFailed, UnitFails, ChainInv, HandedOn
  <1>6. (active' = {} /\ (failedFlag' \/ silent')) \/ active' = {"signal-failed"}
    BY <1>1, <1>4 DEF SignalFailed, UnitFails, HandOver
  <1> QED BY <1>2, <1>3, <1>5, <1>6
          DEF ChainInv, OneUnit, Units, HandedOn, Passing, Rendered, SuccessHolds, FailureIsTold

(* The controller is switched off: the pass ends, and silently.            *)
LEMMA PowerOffKeeps == ASSUME TypeOK, ChainInv, PowerOff PROVE ChainInv'
  <1>1. active' = {} /\ silent' /\ cred' = NoKey /\ pending' = pending /\ copy' = copy
    BY DEF PowerOff
  <1>2. UNCHANGED <<fwKeys, vaultKey>>
    BY DEF PowerOff, Stop, vars
  <1>3. ~InFlight(Chain)'
    <2>1. CASE Stop(Chain)
      BY <2>1, ChainAssumption DEF Stop, Fail, End, Idle, InFlight, Resting, TypeOK
    <2>2. CASE ~InFlight(Chain) /\ UNCHANGED vars
      BY <2>2 DEF InFlight, vars
    <2> QED BY <2>1, <2>2 DEF PowerOff
  <1> QED BY <1>1, <1>2, <1>3
          DEF ChainInv, OneUnit, HandedOn, Passing, Rendered, Served, SuccessHolds, FailureIsTold

(* The invariant of the chain, for as many keys, policies and failures as  *)
(* there may be.                                                           *)
LEMMA ChainAlways == ChainSpec => []ChainInv
  <1>1. ChainInit => ChainInv
    <2> SUFFICES ASSUME ChainInit PROVE ChainInv
      OBVIOUS
    <2>1. ~InFlight(Chain)
      BY ChainAssumption DEF ChainInit, Init, InFlight, Idle, Resting
    <2>2. vaultKey # NoKey => Served
      BY DEF ChainInit, Init, Served, AnyKey
    <2> QED BY <2>1, <2>2
            DEF ChainInit, ChainInv, OneUnit, HandedOn, SuccessHolds, Rendered, FailureIsTold
  <1>2. TypeOK /\ ChainInv /\ [ChainNext]_allVars => ChainInv'
    <2> SUFFICES ASSUME TypeOK, ChainInv, [ChainNext]_allVars PROVE ChainInv'
      OBVIOUS
    <2>1. CASE PolicyDrift \/ UNCHANGED allVars
      BY <2>1 DEF PolicyDrift, Drift, allVars, vars, refresh, chainVars, ChainInv, OneUnit, InFlight,
                  HandedOn, SuccessHolds, Served, Rendered, CheckedWith, FailureIsTold
    <2> QED BY <2>1, StartKeeps, RotateKeeps, RotateEndsKeeps, ConsumersReadKeeps,
               ConsumersRenderKeeps, CheckKeeps, GateKeeps, SignalOkKeeps, FailureKeeps,
               PowerOffKeeps DEF ChainNext
  <1>3. ChainSpec => []TypeOK
    BY ChainIsARotation, TypeCorrect, PTL
  <1> QED BY <1>1, <1>2, <1>3, PTL DEF ChainSpec

(* A pass that signalled its success left Vault and the backup job with    *)
(* one and the same token, accepted by the firewall, whatever failed or    *)
(* was cut off before.                                                     *)
THEOREM SuccessIsUsable == ChainSpec => []SuccessMeansUsable
  <1>1. ChainInv => SuccessMeansUsable
    BY DEF ChainInv, SuccessHolds, Rendered, SuccessMeansUsable
  <1> QED BY <1>1, ChainAlways, PTL

(* A pass that did not succeed has raised the flag, or ended in one of the *)
(* ways that leave no unit to raise it.                                    *)
THEOREM FailureIsAlwaysTold == ChainSpec => []FailureIsTold
  <1>1. ChainInv => FailureIsTold
    BY DEF ChainInv
  <1> QED BY <1>1, ChainAlways, PTL

(* The success is signalled only behind a clean check with the token that  *)
(* Vault and the backup job hold; and the pass that signalled it ends with *)
(* the flag down, unless it raised the flag itself or was cut off between  *)
(* the two files.                                                          *)
THEOREM OnlyTheGateRefreshes == ChainSpec => RefreshedByTheGate
  <1>1. ChainInv /\ [ChainNext]_allVars
        => [/\ pending /\ ~pending' =>
                  result = [of |-> vaultKey, verdict |-> "clean"] /\ copy = vaultKey
            /\ active # {} /\ active' = {} /\ ~pending' =>
                  ~failedFlag' \/ silent' \/ "signal-failed" \in active]_allVars
    <2> SUFFICES ASSUME ChainInv, ChainNext \/ UNCHANGED allVars
                 PROVE  /\ pending /\ ~pending' =>
                              /\ result = [of |-> vaultKey, verdict |-> "clean"]
                              /\ copy = vaultKey
                        /\ active # {} /\ active' = {} /\ ~pending' =>
                              ~failedFlag' \/ silent' \/ "signal-failed" \in active
      OBVIOUS
    <2>1. ASSUME pending, ~pending'
          PROVE  result = [of |-> vaultKey, verdict |-> "clean"] /\ copy = vaultKey
      <3>1. WriteTime
        BY <2>1 DEF ChainNext, StartPass, Rotate, RotateEnds, ConsumersRead, ConsumersRender,
               Check, Gate, LowerFlag, SignalFailed, UnitFails, PowerOff, PolicyDrift, chainVars,
               allVars
      <3> QED BY <3>1 DEF WriteTime, ChainInv, HandedOn, Rendered, CheckedWith
    <2>2. ASSUME active # {}, active' = {}, ~pending'
          PROVE  ~failedFlag' \/ silent' \/ "signal-failed" \in active
      <3>1. Gate \/ LowerFlag \/ SignalFailed \/ PowerOff \/ \E u \in Units : UnitFails(u)
        BY <2>2 DEF ChainNext, StartPass, Rotate, RotateEnds, ConsumersRead, ConsumersRender,
               Check, WriteTime, HandOver, PolicyDrift, chainVars, allVars
      <3>2. CASE Gate
        BY <2>2, <3>2 DEF Gate, HandOver
      <3> QED BY <2>2, <3>1, <3>2 DEF LowerFlag, SignalFailed, PowerOff, UnitFails, HandOver
    <2> QED BY <2>1, <2>2
  <1> QED BY <1>1, ChainAlways, PTL DEF ChainSpec, RefreshedByTheGate

==============================================================================
