# Verification of ansible-platform

TLA+ models of the parts of this repository that change shared state in
several steps and can be stopped between any two of them: the firewall's API
token and its quarterly rotation, the firewall catalog, its break-glass
administrator and its DNS chain, secrets in Vault, database passwords, the
Sentinels' password; and of the scripts that judge: the firewall's gates, the
prune audit, the guards a change of the repository has to pass. Each model is
checked with TLC on small instances; the properties that matter most are proved
with TLAPS for every value of the constants.

    tlc -workers 2 -config SentinelRotation.cfg MCSentinelRotation
    tlapm SentinelRotationProofs.tla

`PROJECT.json` lists components, runs, the source lines every definition
stands for, findings, hazards and theorems.

## 1. The system

Ansible roles and playbooks, run from one controller (a workstation) against
guests, a firewall (OPNsense, through its API) and Vault; a few Python scripts
for the firewall; systemd user units on the controller that run playbooks on a
timer. Nothing locks anything: two plays may run at once. A play is a sequence
of tasks; it can end between any two (a failed task, an unreachable host,
Ctrl-C, the workstation switched off), what it did stays and what it knew is
gone. A re-run is the repair the documentation names everywhere, so most
questions below have the form *after whatever went wrong, does a run that ends
well leave things right?*

| component | state it keeps | operations | with whom it interacts | what is hard | what makes it correct |
|---|---|---|---|---|---|
| API token, `roles/opnsense_api_bootstrap` | keys of the service user on the firewall, Vault document and its metadata, mirror file | read, probe, revoke, mint, store, mirror, verify | Vault, the firewall, the chain, the firewall's rebuild | cut between revoke/mint/store; two plays at once; Vault's policy; stale mirror | at rest Vault's token is accepted; no good token is revoked unasked |
| rotation chain, `roles/opnsense_token_rotation` | units running, check result, two metrics | rotate, consumers, check, gate, signals | the token, backup job, monitoring | a skipped unit is neither success nor failure; power cuts; stale results | a signalled success means usable tokens; a failure is told |
| token consumers, `roles/opnsense_api_creds`, `opnsense_config_backup` | rendered copy of the token | read, render | Vault, the chain | copies go stale with a rotation | the copy is Vault's after a success |
| catalog apply, `scripts/fw_apply_direct.py` | firewall rows, what daemons serve | ensure per entry, reconfigure, service control | catalog editors, the library, the audit | lost answers, errors that do not stop the run, saved but not served | exit 0 means applied and served; no duplicates |
| prune audit, `scripts/fw_prune_audit.py` | none (reads) | search, compare, verdict | catalog apply, administrators | searches that fail; changes while it reads | CLEAN means nothing unknown |
| `roles/vault_secret` | Vault document, custom metadata | read, create, re-read, force-write, stamp | every role; hosts of a play in step | several hosts create the same document at once | create once; a rotation keeps the other fields; callers get what is stored |
| database password, `db-password-rotate.yml`, `roles/postgres_db`, service roles | role, Vault, file, container | rotate, reconcile, render, restart | Vault, PostgreSQL, the service | four places, overlapping plays, restart skipped after a cut | a deployment leaves one password in all places |
| Sentinels, `roles/redis_sentinel` | configuration file (rewritten by Sentinel itself), running configuration, Vault | converge, reset, rotate | each other, Redis clients, Vault | the program owns its file; serial batches; reboots | one password everywhere; nobody locked out; one down at a time |
| break-glass administrator, `scripts/opn_oob_admin.py` | group and privilege, user, its keys, secret file | ensure group, privilege, user; mint; write file | administrators in the GUI | made first, written last: what a cut loses is nowhere | exit 0 means the file's password and key are the user's |
| DNS chain, `scripts/fw_chain_phase1_apply.py` | dnscrypt-proxy's settings and process, Unbound's forwarding and entries, saved and running | six stages that post, two that look | catalog apply (the catch-all forwarders), the health gate | gates that print and stop nothing; `--only` | no query on the old ways after a full run; never without an upstream |
| gates, `fw_verify_health.py`, `fw_validate.py` | none | reads, checks, exit code | the firewall, the DNS chain's result | several reads of a firewall that goes on changing; checks that cannot tell | green: every part was good at some time; red: one was bad or unread |
| `scripts/impacted_plays.py` | closure, frontier | seed, rounds, print | authors of changes | roles that name each other | the closure is exact, and the loop ends |
| guards of a change: `check_no_embedded_scripts.py`, `check_service_contract.py`, `check_inventory_removed_vars.py` | the baseline and the list in the tree, main | scan, compare, `--update` | each other's pull requests, by git's merge | checks of the main a change saw, not of the one it lands on | counts only fall, no held service falls off unnoticed, no variable still read is lost untold |
| `keys-rotate.yml`, `vault_key_store_one.yml` | SSH key, passphrase, escrow document | generate, deploy, escrow | Vault, hosts | passphrase in memory only | a protected key's passphrase is in escrow |
| PPPoE, Windows administrator rotation | device credential, Vault, link | edit, re-dial | Vault | re-dial skipped after a cut | the link runs with the file's credential |
| Vault servers, `roles/vault`, `vault_backup` | unseal keys, members | init, unseal, snapshot | everything | one init ever, keys stored after it | keys are stored before Vault is used |
| PostgreSQL/etcd, Redis pair, dbproxy, keepalived | clusters | serial replacement, handover | each other | quorum while a member is replaced | the health waits between members |
| hypervisor storage, updates, release upgrades, certificates, decommissioning, drills | hosts | guarded sequences | hosts | destructive steps | guards come before them |
| service roles (about sixty), hardening, monitoring rules, the other linters, inventories | files, containers | render, restart | Vault | as the database password's consumer | as there |

## 2. Modules

```
TokenRotation <- RotationChain           EXTENDS: the rotate unit's play is a TokenRotation play
      ^               ^
MCTokenRotation  MCRotationChain         TokenRotationProofs <- RotationChainProofs

CatalogApply <- CatalogAudit             EXTENDS: the audit beside runs of the catalog
      ^               ^
MCCatalogApply <- MCCatalogAudit         CatalogApplyProofs (of both)

SecretStore <= VaultSecret               refinement: Promise == INSTANCE SecretStore WITH draft <- Draft
                    ^
              MCVaultSecret              VaultSecretProofs

DbPassword        MCDbPassword           DbPasswordProofs
SentinelRotation  MCSentinelRotation     SentinelRotationProofs

OobAdmin, DnsChain <- FirewallGates      EXTENDS: the health gate looks at the proxy
       ^                ^                the DNS chain left; one script at a time
       +--- BringUp ----+
               ^
          MCBringUp                      BringUpProofs (of all four)

ImpactedPlays, ServiceContract,          EXTENDS: one tree, three guards,
EmbeddedScripts, InventoryGuard          pull requests between them
               ^
          ChangeGates
               ^
         MCChangeGates                   ChangeGatesProofs (of all five)
```

In all of them a task of a play, a call of a script, is one action; definitions named `...Anyway`,
`...Bare`, `LeavePeer` and the like, introduced by *As if*, are what the
code might have been: the properties are checked to fail when one of them takes the
place of the real definition.

### TokenRotation
`roles/opnsense_api_bootstrap/tasks/main.yml` and its playbook. `run[r]` is a
play: the task it is at (`pc`), what it was asked for (`forced`, `dry`) and its
facts (the genesis credential, whether a document was found, the token in
hand). Tasks map to `ResolveGenesis` (10-67), `ReadStored` (73-99), `Probe`
(101-146), `EnsureUser` (149-242), `Revoke` (244-264), `Mint` (266-286),
`Store`, `Trail` (vault_secret), `Mirror` (313-336) and `Verify` (the
playbook's final probe). `Stop` cuts a play off, `Drift` changes the deploy
identity's Vault policy, `Rebuild` is the firewall built again from its seed,
which starts a play of the role. `RefreshMirror` is `fw-offline-cache.yml`
(production only), a play beside the role's: one task reads the document
(`ReadSources`), a later one writes the copy (`RewriteCopy`), `offline` is what
it holds in between, and any steps of the role's plays may come in between too.
`overtaken` is a history variable: the mirror was last written by a refresh that
had read an older key. A key is an opaque value nobody holds when it is minted.
The 200 and refusal answers of the probe are modelled, a firewall that does not
answer is a play that fails (`Stop`). The read of a document the policy does
not allow yields "absent", as in the code.

### RotationChain
The systemd user units of `roles/opnsense_token_rotation/templates`. `active`
holds the units running; every unit hands over with `OnSuccess=`/`OnFailure=`
exactly as its template says, and the gate's `ConditionFileNotEmpty=` skips it
with neither. The success signal writes two files in two tasks, the time
(`WriteTime`), then the flag (`LowerFlag`); it may fail, or the power go, in
between. `copy` is the backup job's rendered credential; `pending` is the
absence of a fresh success timestamp, `failedFlag` the other metric; `silent`
remembers that the pass ended in a way that leaves no unit to raise the flag
(power cut, skipped gate, failed signal). Passes do not overlap.

### CatalogApply and CatalogAudit
An entry is its section, the aliases it uses, interface, protocol, whether it
has a port and whether the library can find it by a key: the fields
`normalize_rule` and the match look at. `rows` is what is saved on the
firewall, `live` what Unbound and Kea answer with. A run keeps the step it is
at, the entries left in it, `dnsChanged` and whether any result was an error;
`Ensure` is one `ensure()` call, which may fail or be served with its answer
lost. `Edit` changes the catalog in git while runs go on. The audit searches
the four lists of the firewall one after the other; `strays` are rows made in
the GUI under no catalog's name (`Administer`). `Meddle` is a hand in the
catalog's own rows of the filter, at any time, under a run or an audit too: it
removes one, unless it is an alias in use, or clones one that is no alias.
`touched` is a history variable: the entries whose row a hand removed or cloned
and no run has had the occasion to bring back - a run that begins finds a
removed row missing and adds it, but cannot tell a clone from its original.

### SecretStore and VaultSecret
`SecretStore` is what the role's comments promise of a document; `VaultSecret`
is the role's tasks as hosts run them in step: no host starts a task before all
have ended the one before, within a task in any order. `Draft` - absent when
the play read it and being created by its hosts - is the refinement mapping's
only invention: a document is a draft until the hosts re-read it.

### DbPassword
`pg`, `vault`, `file` and `running` are the four places. A rotation is
`Alter`, `ReadBase`, `Write`; a deployment `Get` ... `Sync` of
`roles/postgres_db`, then `Secrets`, `Render`, `Restart`, `Health` of the
service (Grafana). Vault's answers are those VaultSecret establishes for a
play on one host.

### SentinelRotation
`accepts`, `uses`, `req` are a running Sentinel's passwords (its default user,
the one it shows the others, `requirepass` as loaded); `file` is
`sentinel.conf` with the line Sentinel may add for the default user. `Record`
is Sentinel rewriting its file whenever it likes, `Reboot` a restart from it.
The play takes hosts one at a time (`host`, `todo`); in a turn that rotates, the
loop over the files goes through *all* hosts of the play (`at`, `files`),
because `ansible_play_hosts` is not limited by `serial`.

### OobAdmin
`provision` of `opn_oob_admin.py`, call by call: `EnsureGroup`, `ResolveGid`,
`EnsurePriv`, `ListUsers` (where the password is drawn), `EnsureUser`,
`ListKeys`, `Mint`, `OpenFile` (old fields read, file truncated: a cut there
leaves no JSON, and the next run that has something to write fails on it),
`WriteFile`, `Chmod` (the file's mode itself is not modelled; the next run
takes any). `OobFail` is a call that fails or whose answer is lost, in any
step. `DeleteUser` and `RevokeKey` are an administrator in the GUI. `lost` is a
history variable: the secrets the user has and nobody holds.

### DnsChain and FirewallGates
`plan` holds the stages a run has before it; each stage posts and goes on
whatever the answer, the first one excepted. `dnscrypt` and `unbound` are saved
settings, `proxy` and `resolver` what runs with. `AddForwarders` is the part of
`fw_apply_direct.py --only dns-fw` the chain's documentation asks for. `slips`
says what went wrong in this run, `faults` in all runs since (and with) the
last full one that came to its end. A gate is its reads in order - interfaces,
gateways, services; or ARP, NDP, radvd's status, its entries, each awaited by
itself - its failed checks and its exit status; `fw_validate.py` judges at the
end what it read on the way, which the model does read by read. Of an address
the model keeps what the checks look at: whose it is, and of a foreign one
whether it has the suffix held against it. `mayPass` and `mayFail` are history
variables: the parts that were good, or bad, at some time while it ran, from
the scripts' own words (`GoodIs`), not from their checks. `Untold` names what
the checks cannot tell apart.

### ImpactedPlays
`main` of `impacted_plays.py`: `Inspect` seeds the closure with the roles
changed, each `Round` adds the roles that name one of the frontier,
`PrintPlays` prints. The patterns that find a role's name in a file are not
modelled: `refs`, `uses` and `imports` say what they find.

### ServiceContract, EmbeddedScripts, InventoryGuard
Pure operators of a tree: `Check` and `Failing` with the memo of `needs_facts`
kept from service to service, as a recursive function; `Scan`, `Rose` and
`Fell`, counts by category and file; `Removed` and `Problems` by environment.

### ChangeGates
Pull requests on one repository. A change is opened on main, edited, its
baseline lowered by the hook or set by `--update`, checked on its merge with
main, merged - maybe on a main that moved since - and main is checked again
against what it was. `Merged` is git's three-way merge of what the guards look
at; two changes of one line conflict. Which guard a behaviour is about is
chosen at the start (`about`): the guards read different parts of the tree, and
a pull request may be merged only when all of them pass.

### BringUp
The scripts an operator runs by hand on a built firewall, one at a time; the
gates run while the firewall changes (`Flip`, a crash of the proxy, someone in
the GUI).

## 3. What the runs show

| run | instance | states | shows |
|---|---|---|---|
| `token_pair` | 2 plays, 5 keys, 1 cut, policy drifting, break-glass present | 682 k | `ServedAtRest`, `RefusedTokenIsNoticed`, `FewKeys` |
| `token_solo` | 1 play, 5 keys, 2 cuts, production, any genesis document, the offline copy refreshed beside | 355 k | `TypeOK`, `OneKeyAtRest`, `UncutCopiesFollow`, `OnlyStaleRevoked`, liveness `FailureIsRepaired` |
| `chain` | 7 keys, 1 cut, 1 fault, policy drifting | 344 k | `SuccessMeansUsable`, `FailureIsTold`, `RefreshedByTheGate`, liveness `PassesEnd` |
| `catalog` | 4 catalogs (firewall; split DNS; Kea, dnsmasq, radvd; one audited beside rows made, removed and cloned by hand), 1 fault or row touched | 590 k | `TypeOK`, `ExitZeroMeansApplied`, `NoDuplicates`, `RepeatedApplySucceeds`, `SavedIsServed`, `StaysInScope`, and with the audit `CleanMeansNamed`, `BothMeanEqual` |
| `catalog_pending` | the DNS catalog, 1 fault | violation | `DnsServedAfterSuccess` (finding 1) |
| `audit_unanswered` | the audited catalog | violation | `ExitZeroMeansClean` (finding 2) |
| `vault_secret` | 3 hosts, 3 passwords, 2 faults | 245 k | `StampTellsTheDocument`, `Implements` (refinement) |
| `db_password` | 2 plays, 6 passwords, 2 cuts or rebuilds | 11 k | `VaultIsTheTruth`, `DeployedMeansUsable` |
| `sentinel` | 3 Sentinels, 8 passwords, 1 fault | 383 k | `RotatedMeansAgreed`, `NeverLockedOut`, `OneStopped` |
| `sentinel_serial` | the same, no fault | violation | `NeverApart` (finding 3) |
| `bring_up` | 4 secrets made, 2 DoT entries, 2 changes of the firewall under a gate, 6 ways to call the gates | 712 k | `TypeOK`, `DoneMeansUsable`, `FullRunChains`, `ChainAnswers`, `VerdictIsHonest`, `GreenGateChains` |
| `change_gates` | 2 pull requests, 2 edits; 3 graphs of roles (a circle, a chain, a role naming itself), 30 changes | 43 k | `CountsOnlyFall`, `LossIsTold`, `HeldServicesPass`, `FactsAreExact`, `ClosureIsExact`, `PrintedIsReached`, liveness `InspectionEnds` |

Every passing run but `change_gates` checks deadlock as well; there behaviours
come to an end by the bound on edits, with pull requests left that no guard
lets through.

### Findings
1. **Unbound's pending changes.** `fw_apply_direct.py:440` reconfigures only if
   an entry changed in this run. After a lost answer, a failed reconfiguration
   or a cut, the next run changes nothing, exits 0, and the daemon keeps
   serving the old overrides.
2. **An unanswered audit.** `fw_prune_audit.py:74` takes any answer that is not
   rows for an empty list: CLEAN, exit 0, with an orphan on the firewall.
3. **The Sentinels and `serial: 1`.** `rotate.yml:2-3` promises "no moment where
   two Sentinels cannot talk to each other"; under `playbooks/redis.yml:31` the
   first one shows a password the others do not accept yet.

### What the properties have to except
Each exception is in a property's text, because without it TLC finds the
property violated: these are things the code really does.

- *Token*: the mirror is written inside the mint block
  (`opnsense_api_bootstrap/tasks/main.yml:323`). Cut off behind the Vault write,
  the next play finds Vault's token good, skips the block, and the copy stays
  at the revoked key until the next refresh (`UncutCopiesFollow`: no play was cut
  off). And a refresh that read Vault before a rotation and writes after it
  takes the mirror back to the revoked key with nothing cut off at all
  (`UncutCopiesFollow` claims the mirror unless it was `overtaken`).
- *Rotation chain*: cut off between its two files, the success signal leaves the
  alarm of the pass before up beside a fresh time (`RefreshedByTheGate`: the pass
  went `silent`).
- *Prune audit*: it looks for rows under names the catalog lacks. A catalog row
  removed by hand after the apply, or a second row under its name, is seen by
  neither script; only another apply brings a removed one back, and nothing
  removes a clone (`BothMeanEqual`: every entry but those `touched` and still in
  the catalog; `ExitZeroMeansApplied`, `NoDuplicates`: entries not `touched`).
- *Break-glass administrator*: cut off between making a secret and writing it,
  the next run finds a user with a key, writes nothing and exits 0
  (`DoneMeansUsable`: `lost` is empty).
- *DNS chain*: every answer behind the first post is printed and not looked at
  (`FullRunChains`: no post was refused; `ChainAnswers`: no start failed). Only
  a health gate run afterwards tells of a proxy that is down (`GreenGateChains`),
  and it does not ask where queries go.
- *Gates*: without the provider's file any firewall is held against
  production's address suffixes, which a foreign address may end in; an IPv6 address that contains ours passes for
  it; every 172. address counts as private; a gateway that is not listed is not
  down (`Untold`); `fw_validate.py --json` exits 0 whatever it found (`Asked`).
- *Service contract*: `needs_facts` remembers, for the rest of the run, the
  "no" it assumed for a role it was just coming from. With roles that name each
  other in a circle a later service is passed wrongly (`HeldServicesPass`,
  `FactsAreExact`: roles without circles).
- *Embedded scripts*: two changes that each lower the baseline, merged one after
  the other, can leave it above what is found; until CI of main turns red that
  is room for a new script (`CountsOnlyFall`: each change lands on the main it
  was checked on).
- *Inventory*: a reader merged after the removal is compared with a main that
  has lost the variable already, and passes (`LossIsTold` speaks of the merge
  that removes).
- *Impacted plays*: the working tree is looked at only if no commit changed a
  file; a renamed role's users and playbooks that import a listed one are not
  printed (`PrintedIsReached`: a change all committed or all not, up to these).

### Bounds, and why they are enough
- *Keys, Passwords* stand for unlimited supplies: a new one is one nobody
  holds, so enough are given that one is free in every reachable state of the
  run. In `token_pair` only the deepest states hold all five keys. In
  `SentinelRotation` the draw is the least free number, which loses nothing:
  passwords are only compared for equality.
- *MaxStops, MaxFaults, MaxCuts* bound how often something goes wrong in one
  behaviour, not where. One fault and any number of plays before and after it
  shows each cut's aftermath; where two may compound (a cut repaired by a run
  that is cut) the run allows two. The proofs do not depend on these bounds.
- *Two plays* for overlaps: every interleaving hazard of these components is
  between a writer and one other play. The proofs are for any number.
- *MaxRows* counts equal rows of one entry up to 2: "more than one" is all a
  property asks.
- *ByHand* is the audited catalog's alias and rule, with one removal or clone as
  the one fault: before, in or after a run or an audit. The rows
  of the other three catalogs are left alone. The proofs are for any rows of the filter, any number of
  times.
- *Four small catalogs* give one or two entries of every kind a normalisation
  or a property distinguishes; *Edits* retire, drop and take back the entries
  others depend on; *Onlys* are the `--only` groups that overlap.
- *MaxMade = 4* of `bring_up` lets a user be made, lost, deleted and made again
  with a key each time; *MaxFlips = 2* breaks a part of the firewall and mends it,
  or breaks another, between a gate's reads; two entries to switch off make the
  loop of step 5 stop half-way. *about* takes one of the script's three subjects
  at a time: they share the proxy only, which the DNS subject has.
- *MaxEdits = 2* with two pull requests: each may take one step against the
  other (one removes, one adds a reader; both lower), or one change takes two
  (lower and add). The proofs are for any number of edits and changes.
- Symmetry is used over keys, plays, hosts and passwords in runs without
  liveness properties only.

### Fairness
Three specifications state fairness. `FairSpec` of TokenRotation: weak fairness of a
started play's tasks (Ansible goes on to the next task) and strong fairness of
the operator's re-run for real of a play that failed or was a preview; the
runbook of the alert `FirewallTokenRotationFailed` ("a second run repairs a
half-done one") asks for it. `ChainSpec`: weak fairness of the units' work
(systemd runs a started unit). `Spec` of ChangeGates: weak fairness of
`Compute`, a Python loop that nothing blocks. Failures, cuts, policy changes, timers and
edits are never fair.

## 4. What is proved

All for any number of plays, hosts, keys, entries and faults.

- **TokenRotationProofs.** `TypeCorrect`. `RefusedTokenIsAlwaysNoticed`:
  `ServedAtRest` alone is not inductive, since it says nothing of plays under
  way; the strengthening is `RefusedTokenIsNoticed` - if Vault's token is
  refused, some play has not ended well or is about to find out or to write
  another. The step: whoever revokes or stores is itself unsettled afterwards,
  and a play settles only through `Verify`, which has just seen its token
  accepted - and that token is Vault's, or it was settled before.
  `TokenServedAtRest` follows since a resting play that ended well is settled.
  `PreviewNeverWrites`: a previewing play never reaches a task that writes
  (`PreviewStaysOut`). For plays one at a time whose genesis credential comes
  from Vault (`Alone`), `AloneInv` - before it mints no key is valid; past its
  probe it knows Vault's token; a document naming the service user's own key
  stops it at its first task - gives `OneKeyAlone`. With Vault's rights granted
  besides (`Granted`), `GrantedInv` - an unforced play that is about to revoke
  has found the token refused; copies are behind only while a play is writing
  them, or the mirror where a refresh overtook it - gives `CopiesFollow` and `OnlyStaleAreRevoked`. Both assumptions are
  hypotheses of the theorems, and the code needs them: two plays at once may
  leave two keys, and a play that may not read revokes a good token.
  `KeysStayFew`, for any finite number of plays at once (`Few`): minting follows a
  revocation of all keys, so a play at `Mint` counts like the key it will make
  (`FewKeysInv`). `Few` asks for two plays where a genesis document may name a key
  of the service user's own.
- **RotationChainProofs.** `ChainIsARotation`: every behaviour of the units is
  one of `TokenRotation` (a refinement, step by step), so what is proved there
  holds of the chain's play. `ChainInv` adds what every unit finds when it
  starts (`HandedOn`): the check, a copy that is Vault's token; the gate, a result
  obtained with that token; the success signal, a clean one. `SuccessHolds` says the
  claim outlives the pass: until the next one only units that hand over may
  move a key. From it `SuccessIsUsable`, `FailureIsAlwaysTold` (with `OneUnit`:
  whichever unit ends a pass has told of it or left it `silent`) and
  `OnlyTheGateRefreshes`, both of them with a cut between the signal's two files.
- **CatalogApplyProofs.** All with hands in the firewall (`Meddle`): what they touch
  is followed by `touched`, and `MeddleKeeps` shows that nothing else changes.
  `OneRow` gives `NeverDuplicated`, from `SentAsStored`: what
  is sent for an entry is a fixed point of the firewall's storing, so the search
  finds it. `DryRunNeverWrites`, action by action. `CatalogInv` is the invariant of
  a run under way: `Placed` (where it is it was asked to be, with entries of that
  section left), `DoneSoFar` (without an error yet, every entry it has seen to
  is as asked, though later sections ran since), `ServedSoon` (what Unbound does
  not serve will be reconfigured at the end of this run) and `LastHolds` (what the
  last run left stays until another writes). From it `CatalogTyped`,
  `ExitZeroIsApplied`, `SavedGetsServed`, `NeverOutOfScope`. Where `Onward` goes is
  the lemma `GoesTo`: the least step open exists (`LeastOf`), so no entry of its
  scope is passed over. `RepeatInv` follows full runs that nothing hinders: errors
  come from refusals only; none of what is present is refused
  (`PresentIsTaken`: its aliases came first), nor a retired rule
  (`RulesAreDropped`); so after one such run no retired rule holds an alias
  (`Cleared`), and the next is refused nothing (`SecondIsTaken`). That is
  `RepeatsSucceed`. `AuditInv` says what a search that was answered and not disturbed has
  named, and gives `CleanIsNamed`; with `ExitZeroIsApplied`, `BothAreEqual`
  (if every entry of the filter has a match key, `FilterKeyed`). All but the audit's two hold with or without audits beside the runs: to
  an apply, a search that fails is one more step (`Unanswered`).
- **VaultSecretProofs.** `AlwaysInStep` is the inductive invariant - per task,
  what a host has read equals what is stored, unless its own play is creating
  the document or it has itself rotated it - and carries `PromiseKept`: initial
  states map to initial states and every step to a step or a stutter of
  SecretStore under `draft <- Draft`. `StampIsTrue`, from `StampInv`: only while a
  rotation is between its write and its stamp is the stamp behind.
- **DbPasswordProofs.** `IInv` = types, `Alone` (what a play that nothing
  overlaps knows at each task) and `Due` (a file that differs from the
  container's is some play's business or was a cut-off one's). From it
  `VaultAlwaysTheTruth` and `DeployedAlwaysUsable`.
- **SentinelRotationProofs.** `Typing` (types and what each task knows of the
  old and new password), `Agreement` (which Sentinels already agree at each
  point of the loop over the files) and `Openings` (each Sentinel and its file
  keep a password Vault has or had) give `TypeCorrect`, `RotationAgrees` and
  `NobodyLockedOut`. `OneStoppedAtATime` counts the Sentinels that are down and
  not in work: only `Cut` adds one, because a Sentinel the loop waits for has
  been started (`Stopped`).

- **BringUpProofs.** `PartsAreTheScripts`: with the scripts run one at a time the
  firewall's bring-up is a behaviour of `OobSpec` and of `DnsSpec`, so each is
  proved alone. `OobInv` follows each secret - `PasswordKept` and `KeyKept`: what
  the user has is with the run or in the file, or was lost; never in the file
  while that is being written - with `Progress`, what a run has found or done by the
  step it is at; hence `DoneIsUsable`. `DnsInv`: the stages a run has before it
  (`PlanInv`), what those behind it have done unless a post was refused
  (`RunInv`), and what the last full run and everything since have left
  (`LeftInv`); hence `ChainStays` and, if there is an upstream to switch off,
  `ProxyFirst`. `GateInv`: what a gate has collected was so since it began, though
  the firewall changes between its reads; hence `VerdictsAreHonest`. The two meet in
  `GreenMeansChained`; `BringUpTyped` types the whole.
- **ChangeGatesProofs.** `GateInv`: while every change lands on the main it was
  checked on, main passes its own guards (so its baseline *is* what is found); a
  fresh check is of the very tree a merge would make; a branch without
  `--update` never has a baseline above the one it left main with. Then
  `AlwaysGreenWhileFresh`, and `CountsNeverRise`: the merged baseline is at most
  main's, both are exact, so the counts are. `LossIsAlwaysTold` needs no
  invariant: main is checked against what it was. `ClosureExact`: in every round
  the closure without its frontier is closed under "names a role of", and
  nothing is in it that is not in every closed set around the seed; with the
  frontier empty it is the least one. For any graph, circles included.
  `PrintedReached` adds what is printed from it at the end (`InspectInv`).
  `GatesInspect`: both hold of the loop among pull requests, too.

Assumptions are otherwise the named `ASSUME`s of the modules: sentinels (`NoKey`,
`NoPw`, `NoDoc`, `NoHost`) are not values, bounds are naturals, main passes at
first; catalogs are well-formed (`CatalogAssumption`: sections that exist, only
aliases used, settings never retired, which the code has no state for), a gate is
called with flags it has (`GatesFacts`). TLC evaluates them in every run. The
hypotheses of single theorems - `Alone`, `Granted`, `Few`, `WellMade`, `FilterKeyed`,
`Dots # {}` - are conditions the code needs: without them the claim is false of it.
`WellMade` (of the catalogs the firewall's own validation takes) and `FilterKeyed`
hold of the checked catalogs: `MCCatalogAudit` has TLC evaluate both.

Typing invariants of VaultSecret, DbPassword and SentinelRotation, and the
action properties `DryRunWritesNothing`, `PreviewWritesNothing`, are proved and
no run repeats them; likewise `GreenWhileFresh`. The other way round, every
safety property of a passing run is the statement of a theorem, but for two.

*Only model-checked*: liveness (`FailureIsRepaired`, `PassesEnd`,
`InspectionEnds`; temporal proofs with fairness and ENABLED are out of the
prover's reach), and of the service contract `HeldServicesPass` and
`FactsAreExact`: `NeedsFacts` is a recursive function, and what it computes for
every graph of roles needs an induction over data, which the prover cannot do.

## 5. What the models leave out

- *VaultSecret*: one play at a time; its identity may read the path (a 403
  taken for absence is a listed hazard; TokenRotation models it); metadata is
  only put with rotations; `many.yml`, a loop of reads, has no action.
- *DbPassword*: full plays only, no `--tags`; other fields of the document;
  failover of the PostgreSQL leader between two statements (the cluster is
  synchronous).
- *SentinelRotation*: one play at a time, on a platform already built; Redis
  failover; `handover.yml`. The order of turns is arbitrary. The reset rewrites
  the file of a running Sentinel, which may write it back; only what the
  following restart loads matters. `RotatedMeansAgreed` excepts a reboot in the
  seconds of a file's edits (`sound`): there it really fails.
- *TokenRotation*: the refresh rewrites other offline copies too; a cut inside
  the file it writes (the copy module replaces it as a whole).
- *RotationChain*: passes do not overlap, and no manual rotation happens
  between them.
- *CatalogApply*: values of entries beyond those the code normalises or
  matches; two runs at once; rows whose contents a hand edits in the GUI, or rows
  of the DNS, Kea, dnsmasq and radvd sections touched by hand (no audit looks at
  them); the API of the firewall is as the library's use of
  it shows (found by key, case-sensitive; of two
  rows found the first is deleted; an alias in use is not deleted).
- *BringUp*: two scripts at once; the break-glass credential is not wired to
  TokenRotation's genesis, which only asks whether it is accepted. Of the DNS
  chain the two stages that only look; of the gates what informs or warns.
- *ChangeGates*: force-pushes, reverts of main, three or more parents; the
  patterns and YAML parsing by which the scripts find things.
- *Linters that scan one tree* (`check_image_pins.py`,
  `check_loop_on_skipped_register.py`, `check_platform_literals.py`) and
  `deployment_vars.py`: text in, text out, nothing kept between runs.
- *The archived* `roles/jumpserver/_archive/reconcile.py`: not run any more.
- Wall-clock time (timers' calendars, certificate expiry, retries' delays).
- The components with status `not_modelled`, each with its reason in
  `PROJECT.json`.

## 6. Plan

Done, in this order: TokenRotation, RotationChain, CatalogApply, CatalogAudit,
VaultSecret with SecretStore, DbPassword, SentinelRotation; ImpactedPlays,
OobAdmin, DnsChain, FirewallGates and BringUp, the three guards and
ChangeGates.

Next, by weight:

1. **VaultInit** (`roles/vault/tasks/init.yml`): one init on the first member,
   keys stored after it, members joining, a wiped first member refused.
2. **KeysRotate** and **PppoeRotate**: key, passphrase and escrow; file and
   link. Both have DbPassword's shape of "changed in this play".
3. Extensions: a manual rotation between the chain's passes, overlapping passes;
   two plays in VaultSecret (the lost update of a force-write); `handover.yml`;
   OobAdmin's key as TokenRotation's genesis.

Theorems still worth proving: that a chain's pass which nothing hinders ends in
a success (as a safety property of its units), that the catalog's dry run
predicts what the run after it changes, that DbPassword's plays on one host are
VaultSecret's (a refinement), and invariants of the new modules above.

New modules share runs with those they extend or compose, so that each run
stays one question asked of the system.
