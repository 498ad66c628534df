---------------------------- MODULE TokenRotation ----------------------------
(***************************************************************************)
(* roles/opnsense_api_bootstrap: get-or-mint and rotation of the API token *)
(* of the firewall's service user.  A run reads the token from Vault,      *)
(* probes it on the firewall, and where it must mint, revokes every key of *)
(* the service user, mints one, writes it to Vault and to a local mirror.  *)
(* A run is one play on the controller: it may stop between any two tasks  *)
(* (an error, an unreachable host, Ctrl-C) and nothing keeps two runs      *)
(* apart (the quarterly timer, an operator, the firewall's build chain).   *)
(*                                                                         *)
(* A key is an opaque value.  A minted key is one nobody holds yet, so a   *)
(* finite set of keys stands for an unlimited supply.                      *)
(***************************************************************************)
EXTENDS Naturals, FiniteSets

CONSTANTS
    Runs,        \* the plays that may run the role, one after the other or at once
    Keys,        \* API keys of the service user
    NoKey,       \* "no key": an absent document, a fact not defined
    OobKey,      \* the seeded break-glass key: another user's, never revoked here
    GenFile,     \* the genesis key given as a file or as variables, or NoKey
    GenDocs,     \* what the genesis document in Vault may hold
    Policies,    \* the deploy identity's capabilities in Vault, over time
    Tier,        \* platform_env: "prod" refreshes the mirror from Vault
    MaxStops     \* bound: how many runs are cut off part-way

ASSUME KeysAssumption ==
    /\ NoKey \notin Keys
    /\ OobKey \notin Keys
    /\ OobKey # NoKey
ASSUME GenesisAssumption ==
    /\ GenFile \in {NoKey, OobKey}
    /\ GenDocs \subseteq Keys \cup {NoKey, OobKey}
ASSUME OptionsAssumption ==
    /\ Policies \subseteq SUBSET {"read", "write"}
    /\ Tier \in {"prod", "test"}
    /\ MaxStops \in Nat

VARIABLES
    fwKeys,      \* the service user's keys the firewall accepts
    svcUser,     \* does the service user exist on the firewall
    genDoc,      \* the genesis document: the key it holds, or NoKey
    policy,      \* what Vault grants the deploy identity now
    vaultKey,    \* the token document of Vault: the key it holds
    trail,       \* its custom metadata: the key it was written for, and why
    mirror,      \* the 0600 copy on the controller
    run,         \* the plays: program step and facts
    stops,       \* runs cut off so far
    offline,     \* what a refresh of the mirror has read and not yet written
    overtaken    \* the mirror was last written by a refresh that had read
                 \* a key Vault no longer held

refresh == <<offline, overtaken>>
vars == <<fwKeys, svcUser, genDoc, policy, vaultKey, trail, mirror, run, stops, refresh>>

AnyKey == Keys \cup {NoKey}
Reasons == {"none", "forced", "stale", "absent"}

Resting  == {"idle", "done", "dry", "failed"}
Minting  == {"user", "revoke", "mint", "store"}
Written  == {"trail", "mirror"}
Steps    == Resting \cup {"genesis", "read", "probe", "verify"} \cup Minting \cup Written

Idle == [pc |-> "idle", forced |-> FALSE, dry |-> FALSE,
         gen |-> NoKey, found |-> FALSE, token |-> NoKey]

Accepted(k) == k = OobKey \/ k \in fwKeys
At(r, step) == run[r].pc = step
InFlight(r) == run[r].pc \notin Resting

(* The key nobody holds: neither the firewall, nor a store, nor a play.    *)
Held == fwKeys \cup {vaultKey, trail.of, mirror, genDoc, offline}
               \cup {run[r].token : r \in Runs}

Goto(r, step) == run' = [run EXCEPT ![r].pc = step]
(* A play's facts end with it.                                             *)
End(r, outcome) == run' = [run EXCEPT ![r] = [Idle EXCEPT !.pc = outcome]]
Fail(r)         == End(r, "failed")

------------------------------------------------------------------------------
Init ==
    /\ genDoc \in GenDocs
    /\ vaultKey \in AnyKey
    /\ fwKeys = {vaultKey, genDoc} \cap Keys
    /\ svcUser = TRUE
    /\ policy \in Policies
    /\ trail = [of |-> vaultKey, reason |-> "none"]
    /\ mirror = vaultKey
    /\ run = [r \in Runs |-> Idle]
    /\ stops = 0
    /\ offline = NoKey
    /\ overtaken = FALSE

(* A play starts: forced by the timer, or not; for real, or with --check.  *)
Start(r) ==
    /\ ~InFlight(r)
    /\ \E forced, dry \in BOOLEAN :
          run' = [run EXCEPT ![r] = [Idle EXCEPT !.pc = "genesis",
                                                 !.forced = forced, !.dry = dry]]
    /\ UNCHANGED <<fwKeys, svcUser, genDoc, policy, vaultKey, trail, mirror, stops, refresh>>

(* opnsense-build.yml: the firewall is built again from its seed, which    *)
(* carries no key of the service user, and the build chain starts the role.*)
Rebuild(r) ==
    /\ ~InFlight(r)
    /\ fwKeys' = {}
    /\ svcUser' \in BOOLEAN
    /\ run' = [run EXCEPT ![r] = [Idle EXCEPT !.pc = "genesis"]]
    /\ UNCHANGED <<genDoc, policy, vaultKey, trail, mirror, stops, refresh>>

(* As if any genesis document would do, the service user's own included.   *)
ResolveAnyGenesis(r) ==
    LET gen == IF GenFile # NoKey THEN GenFile ELSE genDoc
    IN  /\ At(r, "genesis")
        /\ IF gen = NoKey
             THEN Fail(r)
             ELSE run' = [run EXCEPT ![r] = [@ EXCEPT !.gen = gen, !.pc = "read"]]
        /\ UNCHANGED <<fwKeys, svcUser, genDoc, policy, vaultKey, trail, mirror, stops, refresh>>

(* The genesis credential: a file or variables win; else the Vault         *)
(* document, unless it names the service user itself; else the play fails. *)
ResolveGenesis(r) ==
    LET doc == IF "read" \in policy THEN genDoc ELSE NoKey
        gen == IF GenFile # NoKey THEN GenFile
               ELSE IF doc \notin Keys THEN doc ELSE NoKey
    IN  /\ At(r, "genesis")
        /\ IF gen = NoKey
             THEN Fail(r)
             ELSE run' = [run EXCEPT ![r] = [@ EXCEPT !.gen = gen, !.pc = "read"]]
        /\ UNCHANGED <<fwKeys, svcUser, genDoc, policy, vaultKey, trail, mirror, stops, refresh>>

(* As if the stored token were taken from the local copy.                  *)
ReadFastPath(r) ==
    /\ At(r, "read")
    /\ IF mirror = NoKey /\ run[r].dry
         THEN End(r, "dry")
         ELSE run' = [run EXCEPT ![r] = [@ EXCEPT
                !.found = mirror # NoKey,
                !.token = mirror,
                !.pc = IF mirror = NoKey THEN "user" ELSE "probe"]]
    /\ UNCHANGED <<fwKeys, svcUser, genDoc, policy, vaultKey, trail, mirror, stops, refresh>>

(* The token document, optional: 404 and 403 both yield nothing, and then  *)
(* a play mints, or under --check ends with nothing to verify.             *)
ReadStored(r) ==
    LET stored == IF "read" \in policy THEN vaultKey ELSE NoKey
    IN  /\ At(r, "read")
        /\ IF stored = NoKey /\ run[r].dry
             THEN End(r, "dry")
             ELSE run' = [run EXCEPT ![r] = [@ EXCEPT
                    !.found = stored # NoKey,
                    !.token = stored,
                    !.pc = IF stored = NoKey THEN "user" ELSE "probe"]]
        /\ UNCHANGED <<fwKeys, svcUser, genDoc, policy, vaultKey, trail, mirror, stops, refresh>>

(* As if a token in Vault were trusted unprobed.                           *)
NeedMintWhenAbsent(r) == run[r].forced \/ run[r].token = NoKey

(* The decision on the probe's answer: reuse, or mint.                     *)
NeedMint(r) == run[r].forced \/ run[r].token \notin fwKeys

(* The probe; --check never mints.                                         *)
Probe(r) ==
    /\ At(r, "probe")
    /\ Goto(r, IF NeedMint(r) /\ ~run[r].dry THEN "user" ELSE "verify")
    /\ UNCHANGED <<fwKeys, svcUser, genDoc, policy, vaultKey, trail, mirror, stops, refresh>>

(* Lookups and the service user, with the genesis credential.              *)
EnsureUser(r) ==
    /\ At(r, "user")
    /\ Accepted(run[r].gen)
    /\ svcUser' = TRUE
    /\ Goto(r, "revoke")
    /\ UNCHANGED <<fwKeys, genDoc, policy, vaultKey, trail, mirror, stops, refresh>>

(* Every key of the service user is revoked (revoke_previous is true in    *)
(* every inventory).                                                       *)
RevokeWhenForced(r) ==
    /\ At(r, "revoke")
    /\ Accepted(run[r].gen)
    /\ fwKeys' = IF run[r].forced THEN {} ELSE fwKeys
    /\ Goto(r, "mint")
    /\ UNCHANGED <<svcUser, genDoc, policy, vaultKey, trail, mirror, stops, refresh>>

Revoke(r) ==
    /\ At(r, "revoke")
    /\ Accepted(run[r].gen)
    /\ fwKeys' = {}
    /\ Goto(r, "mint")
    /\ UNCHANGED <<svcUser, genDoc, policy, vaultKey, trail, mirror, stops, refresh>>

(* A new key of the service user, who may be gone again by now.            *)
Mint(r) ==
    /\ At(r, "mint")
    /\ \/ /\ Accepted(run[r].gen) /\ svcUser
          /\ \E k \in Keys \ Held :
                /\ fwKeys' = fwKeys \cup {k}
                /\ run' = [run EXCEPT ![r] = [@ EXCEPT !.token = k, !.pc = "store"]]
       \/ /\ ~svcUser
          /\ Fail(r)
          /\ UNCHANGED fwKeys
    /\ UNCHANGED <<svcUser, genDoc, policy, vaultKey, trail, mirror, stops, refresh>>

(* roles/vault_secret, force_fields: the document takes the new key.       *)
Store(r) ==
    /\ At(r, "store")
    /\ IF "write" \in policy
         THEN vaultKey' = run[r].token /\ Goto(r, "trail")
         ELSE UNCHANGED vaultKey /\ Fail(r)
    /\ UNCHANGED <<fwKeys, svcUser, genDoc, policy, trail, mirror, stops, refresh>>

(* roles/vault_secret, metadata_put: when, by whom and why.                *)
Reason(r) == IF run[r].forced THEN "forced"
             ELSE IF run[r].found THEN "stale" ELSE "absent"

Trail(r) ==
    /\ At(r, "trail")
    /\ IF "write" \in policy
         THEN /\ trail' = [of |-> run[r].token, reason |-> Reason(r)]
              /\ Goto(r, "mirror")
         ELSE UNCHANGED trail /\ Fail(r)
    /\ UNCHANGED <<fwKeys, svcUser, genDoc, policy, vaultKey, mirror, stops, refresh>>

(* As if the copy were only taken of the timer's rotations.                *)
MirrorWhenForced(r) ==
    /\ At(r, "mirror")
    /\ mirror' = IF run[r].forced THEN run[r].token ELSE mirror
    /\ overtaken' = FALSE
    /\ Goto(r, "verify")
    /\ UNCHANGED <<fwKeys, svcUser, genDoc, policy, vaultKey, trail, stops, offline>>

Mirror(r) ==
    /\ At(r, "mirror")
    /\ mirror' = run[r].token
    /\ overtaken' = FALSE
    /\ Goto(r, "verify")
    /\ UNCHANGED <<fwKeys, svcUser, genDoc, policy, vaultKey, trail, stops, offline>>

(* As if the last probe took any answer.                                   *)
VerifyAnyAnswer(r) ==
    /\ At(r, "verify")
    /\ End(r, IF run[r].dry THEN "dry" ELSE "done")
    /\ UNCHANGED <<fwKeys, svcUser, genDoc, policy, vaultKey, trail, mirror, stops, refresh>>

(* The playbook's last word: the token it published must answer 200.       *)
Verify(r) ==
    /\ At(r, "verify")
    /\ End(r, IF run[r].token \notin fwKeys THEN "failed"
              ELSE IF run[r].dry THEN "dry" ELSE "done")
    /\ UNCHANGED <<fwKeys, svcUser, genDoc, policy, vaultKey, trail, mirror, stops, refresh>>

(* A play is cut off: what it did stays, what it knew is gone.             *)
Stop(r) ==
    /\ InFlight(r)
    /\ stops < MaxStops
    /\ stops' = stops + 1
    /\ Fail(r)
    /\ UNCHANGED <<fwKeys, svcUser, genDoc, policy, vaultKey, trail, mirror, refresh>>

(* Somebody changes the deploy identity's Vault policy.                    *)
Drift ==
    /\ policy' \in Policies \ {policy}
    /\ UNCHANGED <<fwKeys, svcUser, genDoc, vaultKey, trail, mirror, run, stops, refresh>>

(* fw-offline-cache.yml, production only: one task reads Vault ...         *)
ReadSources ==
    /\ Tier = "prod"
    /\ offline = NoKey
    /\ "read" \in policy
    /\ vaultKey # NoKey
    /\ offline' = vaultKey
    /\ UNCHANGED <<fwKeys, svcUser, genDoc, policy, vaultKey, trail, mirror, run, stops,
                   overtaken>>

(* ... and a later one makes the copy what was read, whatever Vault holds  *)
(* and whoever wrote the copy by then; the play may also end in between.   *)
RewriteCopy ==
    /\ offline # NoKey
    /\ mirror' = offline
    /\ overtaken' = (offline # vaultKey)
    /\ offline' = NoKey
    /\ UNCHANGED <<fwKeys, svcUser, genDoc, policy, vaultKey, trail, run, stops>>

RefreshStops ==
    /\ offline # NoKey
    /\ offline' = NoKey
    /\ UNCHANGED <<fwKeys, svcUser, genDoc, policy, vaultKey, trail, mirror, run, stops,
                   overtaken>>

RefreshMirror == ReadSources \/ RewriteCopy \/ RefreshStops

Work(r) ==
    \/ ResolveGenesis(r) \/ ReadStored(r) \/ Probe(r)
    \/ EnsureUser(r) \/ Revoke(r) \/ Mint(r)
    \/ Store(r) \/ Trail(r) \/ Mirror(r) \/ Verify(r)

Next ==
    \/ \E r \in Runs : Start(r) \/ Rebuild(r) \/ Work(r) \/ Stop(r)
    \/ Drift
    \/ RefreshMirror

Spec == Init /\ [][Next]_vars

(* A started play is carried on task after task, and the operator answers  *)
(* a play that failed, or only previewed, by running it for real in the    *)
(* end (the alert's runbook says so).                                      *)
Again(r) == At(r, "failed") /\ Start(r) /\ ~run'[r].dry
AgainAfterPreview(r) == At(r, "dry") /\ Start(r) /\ ~run'[r].dry
FairSpec == /\ Spec
            /\ \A r \in Runs : /\ WF_vars(Work(r))
                               /\ SF_vars(Again(r))
                               /\ SF_vars(AgainAfterPreview(r))

------------------------------------------------------------------------------
RunType == [pc : Steps, forced : BOOLEAN, dry : BOOLEAN,
            gen : {NoKey, OobKey}, found : BOOLEAN, token : AnyKey]

(* Every variable keeps to its domain; a genesis credential in use is      *)
(* never the service user's own (lines 45-58 of the role).                 *)
TypeOK ==
    /\ fwKeys \subseteq Keys
    /\ svcUser \in BOOLEAN
    /\ genDoc \in Keys \cup {NoKey, OobKey}
    /\ policy \in Policies
    /\ vaultKey \in AnyKey
    /\ trail \in [of : AnyKey, reason : Reasons]
    /\ mirror \in AnyKey
    /\ run \in [Runs -> RunType]
    /\ stops \in 0 .. MaxStops
    /\ offline \in AnyKey
    /\ overtaken \in BOOLEAN

Quiet == \A r \in Runs : run[r].pc \in {"idle", "done"}
Served == vaultKey \in fwKeys

(* When no play is under way and the last one of each ended well, the      *)
(* token Vault hands out is one the firewall accepts - however the plays   *)
(* were interleaved, cut off, denied by Vault or rebuilt under (the        *)
(* comment at lines 244-250: "the next one finds the Vault token refused,  *)
(* calls it stale and mints").                                             *)
ServedAtRest == Quiet /\ vaultKey # NoKey => Served

(* Why: whoever may have left Vault with a refused token has not ended     *)
(* well since.  It failed, or it has not read the token yet, or it is      *)
(* going to write another, or what it holds is that very token and its     *)
(* probe or its final verification is still to come.                       *)
Unsettled(r) ==
    \/ run[r].pc \in {"failed", "dry", "genesis", "read"} \cup Minting
    \/ run[r].pc \in {"probe", "verify"} \cup Written /\ run[r].token = vaultKey

RefusedTokenIsNoticed ==
    Served \/ vaultKey = NoKey \/ \E r \in Runs : Unsettled(r)

(* However many plays were cut off between minting and storing, the keys   *)
(* left behind do not pile up: no more are valid than plays mint at once.  *)
FewKeys == Cardinality(fwKeys) <= Cardinality(Runs)

(* "exactly one key is valid, the one Vault holds" (defaults, lines 45-47),*)
(* at rest after a play that ended well.                                   *)
OneKeyAtRest == Quiet /\ (\E r \in Runs : At(r, "done")) => fwKeys = {vaultKey}

(* A preview never changes the firewall, Vault or the mirror, whatever the *)
(* firewall and Vault turn into while it runs.                             *)
PreviewWritesNothing ==
    [][\A r \in Runs : run[r].dry /\ InFlight(r) /\ run'[r] # run[r]
            => UNCHANGED <<fwKeys, svcUser, vaultKey, trail, mirror>>]_vars

(* Get-or-mint: a play nobody forced only revokes when the token Vault     *)
(* holds is refused by the firewall ("if Vault already holds the token it  *)
(* is reused", defaults lines 6-7).                                        *)
OnlyStaleRevoked ==
    [][\A r \in Runs : At(r, "revoke") /\ ~run[r].forced /\ fwKeys' # fwKeys
            => ~Served]_vars

(* "So the fast-path file is refreshed after a rotate": plays that end     *)
(* well, none being cut off, leave the audit trail of the key Vault holds, *)
(* and the fast-path copy of it.  Two things the code does undo the copy:  *)
(* a play cut off behind the Vault write (the next one does not notice),   *)
(* and a refresh that read Vault before a rotation and writes after it.    *)
UncutCopiesFollow ==
    stops = 0 /\ Quiet /\ (\E r \in Runs : At(r, "done"))
        => /\ trail.of = vaultKey
           /\ ~overtaken => mirror = vaultKey

(* A play that failed is repaired by running it again, where there is a    *)
(* break-glass credential: Vault's token is accepted in the end (alert     *)
(* FirewallTokenRotationFailed: "a second run repairs a half-done one").   *)
FailureIsRepaired ==
    (\E r \in Runs : At(r, "failed")) /\ OobKey \in {GenFile, genDoc} ~> Served

==============================================================================
