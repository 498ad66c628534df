----------------------------- MODULE DbPassword ------------------------------
(***************************************************************************)
(* One service's PostgreSQL password in the four places it lives: the      *)
(* role in the cluster, Vault, the service's configuration file and the    *)
(* running container.  Two kinds of plays change it: a rotation            *)
(* (playbooks/db-password-rotate.yml) and a deployment of the service      *)
(* (roles/postgres_db, then the service's role, here roles/grafana).       *)
(* Nothing keeps plays apart.  A task is one step; Vault's answers are     *)
(* those of VaultSecret for a play on one host.                            *)
(***************************************************************************)
EXTENDS Naturals

CONSTANTS
    Plays,
    Passwords,   \* drawn at random: never one already held somewhere
    NoPw,        \* no role, no document, no file, no container; nothing read
    MaxCuts      \* bound: plays cut off, hosts rebuilt

ASSUME DbAssumption == NoPw \notin Passwords /\ MaxCuts \in Nat

VARIABLES
    pg,          \* the role's password, on the cluster's leader
    vault,       \* the password in Vault's document
    file,        \* the one in the service's configuration file
    running,     \* the one its container was started with
    pc,          \* play -> the task it is at
    pw,          \* play -> the password it works with
    changed,     \* play -> the file changed in this play
    alone,       \* plays no other has overlapped so far
    half,        \* a play was cut off between the file and the restart
    trouble,     \* a play was cut off, failed or overlapped since the last repair
    settled,     \* a deployment alone ended well, and none began since
    cuts

places == <<pg, vault, file, running>>
vars == <<pg, vault, file, running, pc, pw, changed, alone, half, trouble, settled, cuts>>

RotationTasks == {"alter", "base", "write"}
DeploymentTasks == {"get", "init", "reread", "role", "create", "probe", "sync",
                    "secrets", "render", "restart", "health"}

Busy == {p \in Plays : pc[p] # "idle"}
Held == {pg, vault, file, running} \cup {pw[p] : p \in Plays}
Drawn == Passwords \ Held

Init ==
    /\ pg = NoPw /\ vault = NoPw /\ file = NoPw /\ running = NoPw
    /\ pc = [p \in Plays |-> "idle"]
    /\ pw = [p \in Plays |-> NoPw]
    /\ changed = [p \in Plays |-> FALSE]
    /\ alone = {}
    /\ half = FALSE
    /\ trouble = FALSE
    /\ settled = FALSE
    /\ cuts = 0

Begin(p, first) ==
    /\ pc[p] = "idle"
    /\ pc' = [pc EXCEPT ![p] = first]
    /\ alone' = IF Busy = {} THEN {p} ELSE {}
    /\ trouble' = (trouble \/ Busy # {})
    /\ settled' = FALSE
    /\ UNCHANGED <<pg, vault, file, running, pw, changed, half, cuts>>

At(p, task) == pc[p] = task
Goto(p, task) == pc' = [pc EXCEPT ![p] = task] /\ UNCHANGED <<alone, trouble, settled>>
Leave(p) ==
    /\ pc' = [pc EXCEPT ![p] = "idle"]
    /\ pw' = [pw EXCEPT ![p] = NoPw]
    /\ changed' = [changed EXCEPT ![p] = FALSE]
    /\ alone' = alone \ {p}
Fail(p) == Leave(p) /\ trouble' = TRUE /\ UNCHANGED settled
Reads(p, password) == pw' = [pw EXCEPT ![p] = password]

------------------------------------------------------------------------------
(* The rotation.                                                           *)

(* "ALTER ROLE on the leader", with the password just drawn; psql stops at *)
(* a role that does not exist.                                             *)
Alter(p) ==
    /\ At(p, "alter")
    /\ IF pg = NoPw THEN Fail(p) /\ UNCHANGED pg
       ELSE /\ \E new \in Drawn : pg' = new /\ Reads(p, new)
            /\ Goto(p, "base") /\ UNCHANGED changed
    /\ UNCHANGED <<vault, file, running, half, cuts>>

(* "Read the current Vault secret": it fails when there is none.           *)
ReadBase(p) ==
    /\ At(p, "base")
    /\ IF vault = NoPw THEN Fail(p) ELSE Goto(p, "write") /\ UNCHANGED <<pw, changed>>
    /\ UNCHANGED <<places, half, cuts>>

Write(p) ==
    /\ At(p, "write")
    /\ vault' = pw[p]
    /\ Leave(p)
    /\ UNCHANGED <<pg, file, running, half, trouble, settled, cuts>>

------------------------------------------------------------------------------
(* The deployment: roles/postgres_db.                                      *)

Get(p) ==
    /\ At(p, "get")
    /\ Reads(p, vault)
    /\ Goto(p, IF vault = NoPw THEN "init" ELSE "role")
    /\ UNCHANGED <<places, changed, half, cuts>>

InitDocument(p) ==
    /\ At(p, "init")
    /\ vault' \in Drawn
    /\ Goto(p, "reread")
    /\ UNCHANGED <<pg, file, running, pw, changed, half, cuts>>

ReRead(p) ==
    /\ At(p, "reread")
    /\ Reads(p, vault)
    /\ Goto(p, "role")
    /\ UNCHANGED <<places, changed, half, cuts>>

(* "Check role exists".                                                    *)
Role(p) ==
    /\ At(p, "role")
    /\ Goto(p, IF pg = NoPw THEN "create" ELSE "probe")
    /\ UNCHANGED <<places, pw, changed, half, cuts>>

(* CREATE ROLE fails if another play has created it since.                 *)
CreateRole(p) ==
    /\ At(p, "create")
    /\ IF pg = NoPw THEN pg' = pw[p] /\ Goto(p, "secrets") /\ UNCHANGED <<pw, changed>>
                    ELSE Fail(p) /\ UNCHANGED pg
    /\ UNCHANGED <<vault, file, running, half, cuts>>

(* As if an existing role were left as it is.                              *)
ProbeNothing(p) ==
    /\ At(p, "probe")
    /\ Goto(p, "secrets")
    /\ UNCHANGED <<places, pw, changed, half, cuts>>

(* "Probe whether the live password already matches Vault".                *)
Probe(p) ==
    /\ At(p, "probe")
    /\ Goto(p, IF pg = pw[p] THEN "secrets" ELSE "sync")
    /\ UNCHANGED <<places, pw, changed, half, cuts>>

Sync(p) ==
    /\ At(p, "sync")
    /\ pg' = pw[p]
    /\ Goto(p, "secrets")
    /\ UNCHANGED <<vault, file, running, pw, changed, half, cuts>>

(* The service's role: the password is read once more, rendered, and the   *)
(* container restarted if the file changed in this play (or created).      *)
Secrets(p) ==
    /\ At(p, "secrets")
    /\ Reads(p, vault)
    /\ Goto(p, "render")
    /\ UNCHANGED <<places, changed, half, cuts>>

Render(p) ==
    /\ At(p, "render")
    /\ file' = pw[p]
    /\ changed' = [changed EXCEPT ![p] = file # pw[p]]
    /\ Goto(p, "restart")
    /\ UNCHANGED <<pg, vault, running, pw, half, cuts>>

(* As if a running container were left alone.                              *)
RestartIfAbsent(p) ==
    /\ At(p, "restart")
    /\ running' = IF running = NoPw THEN file ELSE running
    /\ Goto(p, "health")
    /\ UNCHANGED <<pg, vault, file, pw, changed, half, cuts>>

Restart(p) ==
    /\ At(p, "restart")
    /\ IF changed[p] \/ running = NoPw
         THEN running' = file /\ half' = FALSE
         ELSE UNCHANGED <<running, half>>
    /\ changed' = [changed EXCEPT ![p] = changed[p] \/ running = NoPw]
    /\ Goto(p, "health")
    /\ UNCHANGED <<pg, vault, file, pw, cuts>>

(* A container just started needs the database; one that kept running may  *)
(* still hold its open sessions.                                           *)
Health(p) ==
    /\ At(p, "health")
    /\ \/ /\ running = pg \/ ~changed[p]
          /\ Leave(p)
          /\ settled' = (p \in alone)
          /\ trouble' = IF p \in alone THEN FALSE ELSE trouble
       \/ running # pg /\ Fail(p)
    /\ UNCHANGED <<places, half, cuts>>

------------------------------------------------------------------------------
(* The play is stopped.                                                    *)
Cut(p) ==
    /\ pc[p] # "idle"
    /\ cuts < MaxCuts /\ cuts' = cuts + 1
    /\ half' = (half \/ (pc[p] = "restart" /\ changed[p]))
    /\ Fail(p)
    /\ UNCHANGED places

(* The service's host is rebuilt: "a rebuilt/re-pointed app reconnects".   *)
Rebuild ==
    /\ Busy = {}
    /\ cuts < MaxCuts /\ cuts' = cuts + 1
    /\ file' = NoPw /\ running' = NoPw
    /\ half' = FALSE
    /\ settled' = FALSE
    /\ UNCHANGED <<pg, vault, pc, pw, changed, alone, trouble>>

Next ==
    \/ \E p \in Plays :
          \/ Begin(p, "alter") \/ Begin(p, "get")
          \/ Alter(p) \/ ReadBase(p) \/ Write(p)
          \/ Get(p) \/ InitDocument(p) \/ ReRead(p) \/ Role(p) \/ CreateRole(p)
          \/ Probe(p) \/ Sync(p) \/ Secrets(p) \/ Render(p) \/ Restart(p) \/ Health(p)
          \/ Cut(p)
    \/ Rebuild

Spec == Init /\ [][Next]_vars

------------------------------------------------------------------------------
(* The type invariant.                                                     *)
TypeOK ==
    /\ {pg, vault, file, running} \subseteq Passwords \cup {NoPw}
    /\ pc \in [Plays -> {"idle"} \cup RotationTasks \cup DeploymentTasks]
    /\ pw \in [Plays -> Passwords \cup {NoPw}]
    /\ changed \in [Plays -> BOOLEAN]
    /\ alone \subseteq Plays
    /\ half \in BOOLEAN /\ trouble \in BOOLEAN /\ settled \in BOOLEAN
    /\ cuts \in 0 .. MaxCuts

(* "Vault is the source of truth": with no play in progress, the role has  *)
(* Vault's password, unless plays overlapped, failed or were cut off since *)
(* a deployment on its own last ended well - whatever went wrong before.   *)
VaultIsTheTruth == Busy = {} /\ ~trouble => pg = vault

(* A deployment on its own that ends well leaves one password in all four  *)
(* places, after any earlier trouble but one: a play cut off between the   *)
(* file and the restart, which leaves nothing for later plays to notice.   *)
DeployedMeansUsable ==
    settled => /\ pg = vault /\ file = vault
               /\ running = file \/ half
==============================================================================
