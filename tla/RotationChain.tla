---------------------------- MODULE RotationChain ----------------------------
(***************************************************************************)
(* roles/opnsense_token_rotation: the systemd user units on the controller *)
(* around a forced rotation.  Each unit runs one play and hands over to    *)
(* the next with OnSuccess=, or to the failure signal with OnFailure=:     *)
(*                                                                         *)
(*   rotate -> consumers -> check -> gate -> signal-ok                     *)
(*     any of them failing -> signal-failed                                *)
(*                                                                         *)
(* The rotation itself is a play of TokenRotation; this module adds the    *)
(* copy of the token the config backup job keeps, the result file of the   *)
(* check and the two series monitoring alerts on.  No other play of the    *)
(* role runs meanwhile: Runs = {Chain}.                                    *)
(***************************************************************************)
EXTENDS TokenRotation

CONSTANTS
    Chain,       \* the play of the rotate unit, one of Runs
    MaxFaults    \* bound: how many units fail of themselves, or power cuts

ASSUME ChainAssumption == Runs = {Chain} /\ MaxFaults \in Nat

Units == {"rotate", "consumers", "check", "gate", "signal-ok", "signal-failed"}
Verdicts == {"none", "clean", "changed", "failed"}

VARIABLES
    active,      \* the units running now
    copy,        \* the token the config backup job holds
    cred,        \* the token the consumers' play has read, not yet rendered
    result,      \* check-<env>.json: the token it ran with, and its verdict
    failedFlag,  \* platform_fw_token_rotation_failed
    pending,     \* no success was signalled since the last pass began
    silent,      \* a pass ended without a unit that could signal its failure
    faults       \* units failed and power cuts so far

chainVars == <<active, copy, cred, result, failedFlag, pending, silent, faults>>
allVars == <<vars, chainVars>>

ChainInit ==
    /\ Init
    /\ active = {}
    /\ copy = vaultKey
    /\ cred = NoKey
    /\ result = [of |-> NoKey, verdict |-> "none"]
    /\ failedFlag = FALSE
    /\ pending = FALSE
    /\ silent = FALSE
    /\ faults = 0

HandOver(u, v) == active' = (active \ {u}) \cup {v}

(* The timer, or the operator: systemctl --user start fw-token-rotation@.  *)
(* The next pass is assumed to start when the last one is over (quarterly).*)
StartPass ==
    /\ active = {}
    /\ ~InFlight(Chain)
    /\ active' = {"rotate"}
    /\ run' = [run EXCEPT ![Chain] = [Idle EXCEPT !.pc = "genesis", !.forced = TRUE]]
    /\ pending' = TRUE
    /\ silent' = FALSE
    /\ UNCHANGED <<fwKeys, svcUser, genDoc, policy, vaultKey, trail, mirror, stops, refresh,
                   copy, cred, result, failedFlag, faults>>

(* A key just minted is none of those this module keeps, either; which of  *)
(* the keys nobody holds makes no difference.                              *)
NewKeys == fwKeys' \ fwKeys
NewKeysAreNew ==
    NewKeys = {} \/ NewKeys = {CHOOSE k \in Keys : k \notin Held \cup {copy, cred, result.of}}

Rotate ==
    /\ "rotate" \in active
    /\ Work(Chain) \/ Stop(Chain)
    /\ NewKeysAreNew
    /\ UNCHANGED chainVars

(* As if the jobs that keep a copy were left to their next deployment.     *)
RotateEndsAtCheck ==
    /\ "rotate" \in active
    /\ ~InFlight(Chain)
    /\ HandOver("rotate", IF At(Chain, "done") THEN "check" ELSE "signal-failed")
    /\ UNCHANGED <<vars, copy, cred, result, failedFlag, pending, silent, faults>>

(* OnSuccess=consumers, OnFailure=signal-failed.                           *)
RotateEnds ==
    /\ "rotate" \in active
    /\ ~InFlight(Chain)
    /\ HandOver("rotate", IF At(Chain, "done") THEN "consumers" ELSE "signal-failed")
    /\ UNCHANGED <<vars, copy, cred, result, failedFlag, pending, silent, faults>>

(* opnsense-config-backup.yml: opnsense_api_creds reads Vault's token ...  *)
ConsumersRead ==
    /\ "consumers" \in active
    /\ cred = NoKey
    /\ IF "read" \in policy /\ vaultKey # NoKey
         THEN cred' = vaultKey /\ UNCHANGED active
         ELSE HandOver("consumers", "signal-failed") /\ UNCHANGED cred
    /\ UNCHANGED <<vars, copy, result, failedFlag, pending, silent, faults>>

(* ... and the job's curl configuration is rendered with it.               *)
ConsumersRender ==
    /\ "consumers" \in active
    /\ cred # NoKey
    /\ copy' = cred
    /\ cred' = NoKey
    /\ HandOver("consumers", "check")
    /\ UNCHANGED <<vars, result, failedFlag, pending, silent, faults>>

(* opnsense.yml --tags dns --check: ends well also where it would change   *)
(* something; its result replaces the file's content.  A result that could *)
(* not be written leaves the truncated file.                               *)
Check ==
    /\ "check" \in active
    /\ IF "read" \in policy /\ Served
         THEN /\ \E v \in {"clean", "changed", "none"} :
                    result' = [of |-> vaultKey, verdict |-> v]
              /\ HandOver("check", "gate")
         ELSE /\ result' = [of |-> vaultKey, verdict |-> "failed"]
              /\ HandOver("check", "signal-failed")
    /\ UNCHANGED <<vars, copy, cred, failedFlag, pending, silent, faults>>

(* As if the file were appended to, its first document read.               *)
GateOnOldResult ==
    /\ "gate" \in active
    /\ HandOver("gate", "signal-ok")
    /\ UNCHANGED <<vars, copy, cred, result, failedFlag, pending, silent, faults>>

(* ConditionFileNotEmpty=: a unit whose condition fails is skipped, which  *)
(* is neither a success nor a failure.  Else the gate reads the verdict.   *)
Gate ==
    /\ "gate" \in active
    /\ IF result.verdict = "none"
         THEN active' = active \ {"gate"} /\ silent' = TRUE
         ELSE /\ HandOver("gate", IF result.verdict = "clean"
                                    THEN "signal-ok" ELSE "signal-failed")
              /\ UNCHANGED silent
    /\ UNCHANGED <<vars, copy, cred, result, failedFlag, pending, faults>>

(* The first task writes the time of the success ...                       *)
WriteTime ==
    /\ "signal-ok" \in active
    /\ pending
    /\ pending' = FALSE
    /\ UNCHANGED <<vars, active, copy, cred, result, failedFlag, silent, faults>>

(* As if the failure flag were left to the failure signal.                 *)
LeaveFlag ==
    /\ "signal-ok" \in active
    /\ ~pending
    /\ active' = active \ {"signal-ok"}
    /\ UNCHANGED <<vars, copy, cred, result, failedFlag, pending, silent, faults>>

(* ... and the second lowers the flag; the play may fail, or the power go, *)
(* in between.                                                             *)
LowerFlag ==
    /\ "signal-ok" \in active
    /\ ~pending
    /\ failedFlag' = FALSE
    /\ active' = active \ {"signal-ok"}
    /\ UNCHANGED <<vars, copy, cred, result, pending, silent, faults>>

(* As if the failure signal started the chain again.                       *)
SignalFailedRestarts ==
    /\ "signal-failed" \in active
    /\ failedFlag' = TRUE
    /\ HandOver("signal-failed", "rotate")
    /\ UNCHANGED <<vars, copy, cred, result, pending, silent, faults>>

SignalFailed ==
    /\ "signal-failed" \in active
    /\ failedFlag' = TRUE
    /\ active' = active \ {"signal-failed"}
    /\ UNCHANGED <<vars, copy, cred, result, pending, silent, faults>>

(* As if a unit had no OnFailure=.                                         *)
UnitStops(u) ==
    /\ u \in active \ {"rotate"}
    /\ faults < MaxFaults
    /\ faults' = faults + 1
    /\ cred' = NoKey
    /\ active' = active \ {u}
    /\ silent' = (silent \/ u = "signal-failed")
    /\ UNCHANGED <<vars, copy, result, failedFlag, pending>>

(* A unit's play fails before its effect (no agent, nothing reachable),    *)
(* that of signal-ok also between its two.                                 *)
UnitFails(u) ==
    /\ u \in active \ {"rotate"}
    /\ faults < MaxFaults
    /\ faults' = faults + 1
    /\ cred' = NoKey
    /\ IF u = "signal-failed"
         THEN active' = active \ {u} /\ silent' = TRUE
         ELSE HandOver(u, "signal-failed") /\ UNCHANGED silent
    /\ UNCHANGED <<vars, copy, result, failedFlag, pending>>

(* The controller is a workstation: powered off, no unit signals anything. *)
PowerOff ==
    /\ faults < MaxFaults
    /\ active # {}
    /\ faults' = faults + 1
    /\ active' = {}
    /\ cred' = NoKey
    /\ silent' = TRUE
    /\ \/ Stop(Chain)
       \/ ~InFlight(Chain) /\ UNCHANGED vars
    /\ UNCHANGED <<copy, result, failedFlag, pending>>

(* Vault's policy changes around the chain.                                *)
PolicyDrift == Drift /\ UNCHANGED chainVars

ChainNext ==
    \/ StartPass \/ Rotate \/ RotateEnds
    \/ ConsumersRead \/ ConsumersRender \/ Check \/ Gate
    \/ WriteTime \/ LowerFlag \/ SignalFailed
    \/ \E u \in Units : UnitFails(u)
    \/ PowerOff
    \/ PolicyDrift

UnitWork ==
    \/ Rotate \/ RotateEnds \/ ConsumersRead \/ ConsumersRender
    \/ Check \/ Gate \/ WriteTime \/ LowerFlag \/ SignalFailed

ChainSpec == ChainInit /\ [][ChainNext]_allVars /\ WF_allVars(UnitWork)

------------------------------------------------------------------------------
(* A pass that refreshed the time of the last success left a firewall      *)
(* token everybody can use, also where it failed or lost power right after *)
(* that: Vault's is accepted, and so is the copy of the backup job         *)
(* (consumers' comment: "each play reads the new one from Vault").         *)
SuccessMeansUsable ==
    active = {} /\ ~pending /\ vaultKey # NoKey => Served /\ copy = vaultKey

(* The time of the last success is refreshed only by a pass whose check    *)
(* ran, clean, with the very token Vault and the backup job hold.  A pass  *)
(* that refreshed it ends with the alarm of the one before down, unless it *)
(* raised its own or was cut off between the two files (then the alarm of  *)
(* the pass before stays up beside a fresh time).                          *)
RefreshedByTheGate ==
    [][/\ pending /\ ~pending' =>
             result = [of |-> vaultKey, verdict |-> "clean"] /\ copy = vaultKey
       /\ active # {} /\ active' = {} /\ ~pending' =>
             ~failedFlag' \/ silent' \/ "signal-failed" \in active]_allVars

(* A pass that did not succeed is told: the flag is up, or one of the ways *)
(* in which no unit is left to raise it (then the success is not refreshed *)
(* and FirewallTokenRotationOverdue says so later).                        *)
FailureIsTold == active = {} /\ pending => failedFlag \/ silent

(* Every pass comes to an end whatever fails in it.                        *)
PassesEnd == (active # {}) ~> (active = {})

==============================================================================
