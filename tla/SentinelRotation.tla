-------------------------- MODULE SentinelRotation ---------------------------
(***************************************************************************)
(* The Sentinels' own password (roles/redis_sentinel, second play of       *)
(* playbooks/redis.yml): the play takes the Sentinels one at a time        *)
(* (serial: 1), and on request each turn rotates the password - of every   *)
(* Sentinel's file, since the loop over ansible_play_hosts is not limited  *)
(* by serial.  A task is one step.  A Sentinel owns its file and rewrites  *)
(* it when it likes; a reboot starts it again from that file.              *)
(***************************************************************************)
EXTENDS Naturals, FiniteSets

CONSTANTS
    Hosts,       \* the Sentinels
    Passwords,   \* drawn at random: never one already held somewhere
    NoHost, NoPw,
    w0,          \* the password of the platform as built
    MaxFaults    \* bound: plays cut off, Sentinels rebooted

ASSUME SentinelAssumption ==
    /\ NoHost \notin Hosts /\ IsFiniteSet(Hosts)
    /\ Passwords \subseteq Nat /\ w0 \in Passwords /\ NoPw \notin Passwords
    /\ MaxFaults \in Nat

VARIABLES
    vault,       \* the password in Vault's document
    up,          \* Sentinel -> its container runs
    accepts,     \* Sentinel -> the passwords of its default user
    uses,        \* Sentinel -> the password it shows the others
    req,         \* Sentinel -> requirepass, as loaded
    file,        \* Sentinel -> sentinel.conf
    pc,          \* the task the play is at
    flags,       \* what the play was asked for: "rotate", "reset"
    host, todo,  \* the Sentinel whose turn it is, those still to come
    pw, new,     \* the play's password, and the one it has just drawn
    at, files,   \* the Sentinel whose file is edited, those still to come
    rotated,     \* a rotation ended well and none began since
    sound,       \* no reboot met this play's edits of that Sentinel's file
    lost,        \* passwords drawn by plays that ended before Vault had them
    faults

sentinels == <<up, accepts, uses, req, file>>
play == <<flags, host, todo, pw, new, at, files, rotated, sound>>
vars == <<vault, up, accepts, uses, req, file, pc, flags, host, todo, pw, new,
          at, files, rotated, sound, lost, faults>>

Tasks == {"idle", "secret", "conf", "container", "mint", "accept", "store", "use",
          "stop", "pass", "peer", "acl", "start", "back", "drop", "check", "declare"}
Edits == {"pass", "peer", "acl"}

(* sentinel.conf: requirepass, sentinel-pass, and the passwords of the     *)
(* line Sentinel may write for the default user ({} = no such line), which *)
(* applies after requirepass.                                              *)
Conf == [pass : Passwords, peer : Passwords, acl : SUBSET Passwords]
Rendered(password) == [pass |-> password, peer |-> password, acl |-> {}]
Loads(conf) == IF conf.acl = {} THEN {conf.pass} ELSE conf.acl

HeldBy(i) == accepts[i] \cup {uses[i], req[i]} \cup {file[i].pass, file[i].peer} \cup file[i].acl
Free == {w \in Passwords \ ({vault, pw, new} \cup lost) : \A i \in Hosts : w \notin HeldBy(i)}
(* Any free password would do: numbered, the least one keeps runs small.   *)
Drawn == {w \in Free : \A v \in Free : w <= v}

(* Accepted by a Sentinel already, not in Vault yet.                       *)
Unstored == IF pc = "store" THEN {new} ELSE {}

(* A platform built and never rotated.                                     *)
Init ==
    /\ vault = w0
    /\ up = [i \in Hosts |-> TRUE]
    /\ accepts = [i \in Hosts |-> {w0}]
    /\ uses = [i \in Hosts |-> w0]
    /\ req = [i \in Hosts |-> w0]
    /\ file = [i \in Hosts |-> Rendered(w0)]
    /\ pc = "idle" /\ flags = {}
    /\ host = NoHost /\ todo = {}
    /\ pw = NoPw /\ new = NoPw
    /\ at = NoHost /\ files = {}
    /\ rotated = TRUE /\ sound = TRUE
    /\ lost = {}
    /\ faults = 0

------------------------------------------------------------------------------
(* The Sentinels.                                                          *)

Opens(i, password) == up[i] /\ password \in accepts[i]

(* A start: the file is all a Sentinel knows.                              *)
Load(i) ==
    /\ up' = [up EXCEPT ![i] = TRUE]
    /\ accepts' = [accepts EXCEPT ![i] = Loads(file[i])]
    /\ uses' = [uses EXCEPT ![i] = file[i].peer]
    /\ req' = [req EXCEPT ![i] = file[i].pass]
    /\ UNCHANGED file

(* "What it writes back for the default user is its own business."         *)
Recorded(i) ==
    {[pass |-> req[i], peer |-> uses[i], acl |-> line] : line \in {{}, accepts[i]}}
Record(i) ==
    /\ up[i]
    /\ \E conf \in Recorded(i) : file' = [file EXCEPT ![i] = conf]
    /\ UNCHANGED <<vault, up, accepts, uses, req, pc, play, lost, faults>>

(* restart_policy: always.                                                 *)
Reboot(i) ==
    /\ faults < MaxFaults /\ faults' = faults + 1
    /\ Load(i)
    /\ sound' = (sound /\ ~(i = at /\ pc \in Edits))
    /\ UNCHANGED <<vault, pc, flags, host, todo, pw, new, at, files, rotated, lost>>

------------------------------------------------------------------------------
(* The play: one Sentinel's turn after the other.                          *)

At(task) == pc = task
Goto(task) == pc' = task /\ UNCHANGED <<flags, host, todo, rotated, sound, lost, faults>>
Turn(waiting) == \E i \in waiting : host' = i /\ todo' = waiting \ {i}
Forget == pw' = NoPw /\ new' = NoPw /\ at' = NoHost /\ files' = {}

(* A task that fails ends the play: its batch is one host.                 *)
Fail ==
    /\ pc' = "idle" /\ flags' = {}
    /\ host' = NoHost /\ todo' = {}
    /\ Forget
    /\ lost' = lost \cup Unstored
    /\ UNCHANGED <<rotated, sound>>
Fails == Fail /\ UNCHANGED <<vault, sentinels, faults>>

Begin(asked) ==
    /\ At("idle")
    /\ flags' = asked
    /\ Turn(Hosts)
    /\ pc' = "secret"
    /\ rotated' = (rotated /\ "rotate" \notin asked)
    /\ sound' = TRUE
    /\ UNCHANGED <<vault, sentinels, pw, new, at, files, lost, faults>>

(* "The Sentinels' own password (get-or-create in Vault)".                 *)
Secret ==
    /\ At("secret")
    /\ pw' = vault
    /\ Goto(IF "reset" \in flags THEN "conf" ELSE "container")
    /\ UNCHANGED <<vault, sentinels, new, at, files>>

(* "Write the initial configuration (only when absent or on reset)".       *)
WriteConf ==
    /\ At("conf")
    /\ file' = [file EXCEPT ![host] = Rendered(pw)]
    /\ Goto("container")
    /\ UNCHANGED <<vault, up, accepts, uses, req, pw, new, at, files>>

Container ==
    /\ At("container")
    /\ IF "reset" \in flags \/ ~up[host] THEN Load(host) ELSE UNCHANGED sentinels
    /\ Goto(IF "rotate" \in flags THEN "mint" ELSE "declare")
    /\ UNCHANGED <<vault, pw, new, at, files>>

Mint ==
    /\ At("mint")
    /\ new' \in Drawn
    /\ Goto("accept")
    /\ UNCHANGED <<vault, sentinels, pw, at, files>>

(* As if the new password took the old one's place.                        *)
AcceptOnlyNew ==
    /\ At("accept") /\ Opens(host, pw)
    /\ accepts' = [accepts EXCEPT ![host] = {new}]
    /\ Goto("store")
    /\ UNCHANGED <<vault, up, uses, req, file, pw, new, at, files>>

(* "Every Sentinel accepts the new password next to the old one": in a     *)
(* batch of one, this Sentinel.                                            *)
Accept ==
    /\ At("accept") /\ Opens(host, pw)
    /\ accepts' = [accepts EXCEPT ![host] = @ \cup {new}]
    /\ Goto("store")
    /\ UNCHANGED <<vault, up, uses, req, file, pw, new, at, files>>

Store ==
    /\ At("store")
    /\ vault' = new
    /\ Goto("use")
    /\ UNCHANGED <<sentinels, pw, new, at, files>>

(* "Every Sentinel uses the new password towards the others".              *)
Use ==
    /\ At("use") /\ Opens(host, pw)
    /\ uses' = [uses EXCEPT ![host] = new]
    /\ files' = Hosts
    /\ Goto("stop")
    /\ UNCHANGED <<vault, up, accepts, req, file, pw, new, at>>

(* As if every Sentinel were stopped before any is started again.          *)
StopAll ==
    /\ At("stop")
    /\ \E i \in files : at' = i /\ files' = files \ {i}
    /\ up' = [i \in Hosts |-> FALSE]
    /\ Goto("pass")
    /\ UNCHANGED <<vault, accepts, uses, req, file, pw, new>>

(* "One Sentinel at a time: stop, set the password lines of its file,      *)
(* start": every Sentinel of the play, not of the batch.                   *)
Stop ==
    /\ At("stop")
    /\ \E i \in files : at' = i /\ files' = files \ {i} /\ up' = [up EXCEPT ![i] = FALSE]
    /\ Goto("pass")
    /\ UNCHANGED <<vault, accepts, uses, req, file, pw, new>>

Edit(task, conf, next) ==
    /\ At(task)
    /\ file' = [file EXCEPT ![at] = conf]
    /\ Goto(next)
    /\ UNCHANGED <<vault, up, accepts, uses, req, pw, new, at, files>>

EditPass == Edit("pass", [file[at] EXCEPT !.pass = new], "peer")
(* As if only its own password were set in a Sentinel's file.              *)
LeavePeer == Edit("peer", file[at], "acl")
EditPeer == Edit("peer", [file[at] EXCEPT !.peer = new], "acl")
(* "No separate line for the default user".                                *)
DropLine == Edit("acl", [file[at] EXCEPT !.acl = {}], "start")

(* docker start does nothing to a container that runs.                     *)
Start ==
    /\ At("start")
    /\ IF up[at] THEN UNCHANGED sentinels ELSE Load(at)
    /\ Goto("back")
    /\ UNCHANGED <<vault, pw, new, at, files>>

(* "It answers with the new password and sees the primary".                *)
Back ==
    /\ At("back") /\ Opens(at, new)
    /\ at' = NoHost
    /\ Goto(IF files = {} THEN "drop" ELSE "stop")
    /\ UNCHANGED <<vault, sentinels, pw, new, files>>

(* "The old password is removed and the Sentinel records its               *)
(* configuration"; one it does not know any more is nothing to remove.     *)
Drop ==
    /\ At("drop") /\ Opens(host, new)
    /\ accepts' = [accepts EXCEPT ![host] = @ \ {pw}]
    /\ \E line \in {{}, accepts'[host]} :
          file' = [file EXCEPT ![host] = [pass |-> req[host], peer |-> uses[host], acl |-> line]]
    /\ Goto("check")
    /\ UNCHANGED <<vault, up, uses, req, pw, new, at, files>>

(* "The old password is refused, the new one accepted".                    *)
Check ==
    /\ At("check") /\ Opens(host, new) /\ ~Opens(host, pw)
    /\ pw' = new
    /\ Goto("declare")
    /\ UNCHANGED <<vault, sentinels, new, at, files>>

(* "Declared settings on the running Sentinel", recorded by it; then the   *)
(* next Sentinel's turn, or the end of the play.                           *)
Declare ==
    /\ At("declare") /\ Opens(host, pw)
    /\ \E conf \in Recorded(host) : file' = [file EXCEPT ![host] = conf]
    /\ IF todo = {}
         THEN /\ pc' = "idle" /\ flags' = {} /\ host' = NoHost /\ UNCHANGED todo
              /\ rotated' = (rotated \/ ("rotate" \in flags /\ sound))
         ELSE pc' = "secret" /\ Turn(todo) /\ UNCHANGED <<flags, rotated>>
    /\ Forget
    /\ UNCHANGED <<vault, up, accepts, uses, req, sound, lost, faults>>

(* The Sentinel a task talks to does not take the password it is given.    *)
Refused ==
    /\ \/ pc \in {"accept", "use", "declare"} /\ ~Opens(host, pw)
       \/ pc = "back" /\ ~Opens(at, new)
       \/ pc \in {"drop", "check"} /\ ~Opens(host, new)
       \/ pc = "check" /\ Opens(host, pw)
    /\ Fails

(* The play is stopped, or a task fails.                                   *)
Cut ==
    /\ pc # "idle"
    /\ faults < MaxFaults /\ faults' = faults + 1
    /\ Fail
    /\ UNCHANGED <<vault, sentinels>>

Next ==
    \/ \E asked \in SUBSET {"rotate", "reset"} : Begin(asked)
    \/ Secret \/ WriteConf \/ Container
    \/ Mint \/ Accept \/ Store \/ Use
    \/ Stop \/ EditPass \/ EditPeer \/ DropLine \/ Start \/ Back
    \/ Drop \/ Check \/ Declare
    \/ Refused \/ Cut
    \/ \E i \in Hosts : Record(i) \/ Reboot(i)

Spec == Init /\ [][Next]_vars

------------------------------------------------------------------------------
(* The type invariant: a file is being edited exactly in its tasks.        *)
TypeOK ==
    /\ vault \in Passwords
    /\ up \in [Hosts -> BOOLEAN]
    /\ accepts \in [Hosts -> SUBSET Passwords]
    /\ uses \in [Hosts -> Passwords] /\ req \in [Hosts -> Passwords]
    /\ file \in [Hosts -> Conf]
    /\ pc \in Tasks /\ flags \subseteq {"rotate", "reset"}
    /\ IF pc = "idle" THEN host = NoHost ELSE host \in Hosts
    /\ todo \subseteq Hosts /\ files \subseteq Hosts
    /\ {pw, new} \subseteq Passwords \cup {NoPw}
    /\ IF pc \in Edits \cup {"start", "back"} THEN at \in Hosts ELSE at = NoHost
    /\ rotated \in BOOLEAN /\ sound \in BOOLEAN
    /\ lost \subseteq Passwords
    /\ faults \in 0 .. MaxFaults

(* A rotation that ends well leaves every Sentinel running, accepting and  *)
(* using Vault's password and no other, with a file a restart can only     *)
(* come back from with it - whatever was cut off or rebooted before, and   *)
(* whatever is rebooted or reset after.                                    *)
RotatedMeansAgreed ==
    rotated => \A i \in Hosts :
        /\ up[i] /\ accepts[i] = {vault} /\ uses[i] = vault
        /\ Loads(file[i]) = {vault} /\ file[i].peer = vault

(* Cut off anywhere, a rotation locks nobody out: every Sentinel takes,    *)
(* now and after a restart, a password that Vault holds or held (its       *)
(* versions are kept).                                                     *)
NeverLockedOut ==
    \A i \in Hosts :
        /\ accepts[i] \ (lost \cup Unstored) # {}
        /\ Loads(file[i]) \ (lost \cup Unstored) # {}

(* "One Sentinel at a time (the two others keep the quorum)": beside the   *)
(* one in work, only what cut-off plays left is down.                      *)
OneStopped == Cardinality({i \in Hosts : ~up[i] /\ i # at}) <= faults

(* "No moment where two Sentinels cannot talk to each other".              *)
NeverApart ==
    faults = 0 => \A i, j \in Hosts : up[i] /\ up[j] => uses[i] \in accepts[j]
==============================================================================
