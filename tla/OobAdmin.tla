------------------------------ MODULE OobAdmin ------------------------------
(***************************************************************************)
(* scripts/opn_oob_admin.py: the break-glass administrator of the          *)
(* firewall.  A run makes the group, gives it the privilege, makes the     *)
(* user with a new password if there is none, mints a key if the user has  *)
(* none, and only then writes what it made to the secret file.  It may be  *)
(* cut off anywhere; a call may fail before or after it took effect.  By   *)
(* hand, the user may be deleted ("delete+rerun") and a key revoked.       *)
(***************************************************************************)
EXTENDS Naturals

CONSTANT MaxMade   \* bound: passwords and keys generated

ASSUME MadeAssumption == MaxMade \in Nat

VARIABLES
    group,      \* "none", "made", "privileged"
    admin,      \* the user's [pw, keys], or Nobody
    oobFile,    \* what the secret file holds of them, and whether it is torn
    oobRun,     \* the run under way
    oobExit,    \* exit status of the last run, "none" before it
    made,       \* secrets generated so far
    lost,       \* of "pw", "key": the user's, and neither in the file nor in a run
    meddled     \* someone acted by hand since the run began

oob == <<group, admin, oobFile, oobRun, oobExit, made, lost, meddled>>

Unset == 0
Made == 1 .. MaxMade
Nobody == [pw |-> Unset, keys |-> {}]
Unknown == MaxMade + 1   \* a password nobody was told
Missing == [torn |-> FALSE, pw |-> Unset, key |-> Unset]
Torn == [Missing EXCEPT !.torn = TRUE]   \* truncated: no JSON
NoRun == [at |-> "idle", check |-> FALSE, pw |-> Unset, key |-> Unset]
OobSteps == {"idle", "group", "gid", "priv", "list", "user", "keys", "mint", "open", "write",
             "chmod"}

OobInit ==
    /\ group = "none" /\ admin = Nobody /\ oobFile = Missing /\ oobRun = NoRun
    /\ oobExit = "none" /\ made = 0 /\ lost = {} /\ meddled = FALSE

Goto(step) == oobRun' = [oobRun EXCEPT !.at = step]

(* What the run made, took effect and will now not be written.             *)
Dropped ==
    {x \in {"pw", "key"} :
        \/ x = "pw" /\ oobRun.pw # Unset /\ oobRun.pw = admin.pw
        \/ x = "key" /\ oobRun.key \in admin.keys}

OobEnd(status) ==
    /\ oobRun' = NoRun /\ oobExit' = status
    /\ lost' = lost \cup (IF status = "done" THEN {} ELSE Dropped)

OobBegin(check) ==
    /\ oobRun.at = "idle"
    /\ oobRun' = [NoRun EXCEPT !.at = "group", !.check = check]
    /\ meddled' = FALSE
    /\ UNCHANGED <<group, admin, oobFile, oobExit, made, lost>>

EnsureGroup ==
    /\ oobRun.at = "group"
    /\ group' = IF oobRun.check \/ group # "none" THEN group ELSE "made"
    /\ Goto("gid")
    /\ UNCHANGED <<admin, oobFile, oobExit, made, lost, meddled>>

(* resolve_gid: no group of that name ends an applying run.                *)
ResolveGid ==
    /\ oobRun.at = "gid"
    /\ IF group = "none" /\ ~oobRun.check
       THEN OobEnd("failed")
       ELSE Goto("priv") /\ UNCHANGED <<oobExit, lost>>
    /\ UNCHANGED <<group, admin, oobFile, made, meddled>>

EnsurePriv ==
    /\ oobRun.at = "priv"
    /\ group' = IF oobRun.check THEN group ELSE "privileged"
    /\ Goto("list")
    /\ UNCHANGED <<admin, oobFile, oobExit, made, lost, meddled>>

ListUsers ==
    /\ oobRun.at = "list" /\ made < MaxMade
    /\ oobRun' = [oobRun EXCEPT !.at = "user",
                                !.pw = IF admin = Nobody THEN made + 1 ELSE Unset]
    /\ made' = IF admin = Nobody THEN made + 1 ELSE made
    /\ UNCHANGED <<group, admin, oobFile, oobExit, lost, meddled>>

(* users.ensure: creates, or leaves the password as it is.  Created after  *)
(* all with no password if it was deleted since it was listed.             *)
EnsureUser ==
    /\ oobRun.at = "user"
    /\ IF oobRun.check \/ admin # Nobody
       THEN UNCHANGED <<admin, lost>>
       ELSE /\ admin' = [pw |-> IF oobRun.pw = Unset THEN Unknown ELSE oobRun.pw, keys |-> {}]
            /\ lost' = IF oobRun.pw = Unset THEN {"pw"} ELSE {}
    /\ Goto("keys")
    /\ UNCHANGED <<group, oobFile, oobExit, made, meddled>>

(* As if the run did not look for a key first.                             *)
MintAlways ==
    /\ oobRun.at = "keys"
    /\ Goto(IF oobRun.check THEN "open" ELSE "mint")
    /\ UNCHANGED <<group, admin, oobFile, oobExit, made, lost, meddled>>
ListKeys ==
    /\ oobRun.at = "keys"
    /\ Goto(IF oobRun.check \/ admin.keys # {} THEN "open" ELSE "mint")
    /\ UNCHANGED <<group, admin, oobFile, oobExit, made, lost, meddled>>

(* As if a key could be had for a user who is gone.                        *)
MintAnyway ==
    /\ oobRun.at = "mint" /\ made < MaxMade
    /\ admin' = [admin EXCEPT !.keys = @ \cup {made + 1}]
    /\ made' = made + 1
    /\ oobRun' = [oobRun EXCEPT !.at = "open", !.key = made + 1]
    /\ UNCHANGED <<group, oobFile, oobExit, lost, meddled>>
(* create_key: fails if the user is gone.                                  *)
Mint ==
    /\ oobRun.at = "mint" /\ made < MaxMade
    /\ IF admin = Nobody
       THEN OobEnd("failed") /\ UNCHANGED <<admin, made>>
       ELSE /\ admin' = [admin EXCEPT !.keys = @ \cup {made + 1}]
            /\ made' = made + 1
            /\ oobRun' = [oobRun EXCEPT !.at = "open", !.key = made + 1]
            /\ UNCHANGED <<oobExit, lost>>
    /\ UNCHANGED <<group, oobFile, meddled>>

(* As if the file's fields won over the new ones.                          *)
OpenFileOldFirst ==
    /\ oobRun.at = "open"
    /\ IF oobRun.check \/ (oobRun.pw = Unset /\ oobRun.key = Unset)
       THEN OobEnd(IF oobRun.check THEN "dry" ELSE "done") /\ UNCHANGED oobFile
       ELSE IF oobFile.torn
       THEN OobEnd("failed") /\ UNCHANGED oobFile
       ELSE /\ oobRun' = [oobRun EXCEPT !.at = "write",
                              !.pw = IF oobFile.pw # Unset THEN oobFile.pw ELSE @,
                              !.key = IF oobFile.key # Unset THEN oobFile.key ELSE @]
            /\ oobFile' = Torn
            /\ UNCHANGED <<oobExit, lost>>
    /\ UNCHANGED <<group, admin, made, meddled>>
(* The old fields are read, if the file is there, and the file truncated;  *)
(* what is no JSON ends the run.  With nothing new nothing is written.     *)
OpenFile ==
    /\ oobRun.at = "open"
    /\ IF oobRun.check \/ (oobRun.pw = Unset /\ oobRun.key = Unset)
       THEN OobEnd(IF oobRun.check THEN "dry" ELSE "done") /\ UNCHANGED oobFile
       ELSE IF oobFile.torn
       THEN OobEnd("failed") /\ UNCHANGED oobFile
       ELSE /\ oobRun' = [oobRun EXCEPT !.at = "write",
                              !.pw = IF @ = Unset THEN oobFile.pw ELSE @,
                              !.key = IF @ = Unset THEN oobFile.key ELSE @]
            /\ oobFile' = Torn
            /\ UNCHANGED <<oobExit, lost>>
    /\ UNCHANGED <<group, admin, made, meddled>>

(* What is written is no longer the run's alone.                           *)
WriteFile ==
    /\ oobRun.at = "write"
    /\ oobFile' = [torn |-> FALSE, pw |-> oobRun.pw, key |-> oobRun.key]
    /\ oobRun' = [NoRun EXCEPT !.at = "chmod"]
    /\ UNCHANGED <<group, admin, oobExit, made, lost, meddled>>

(* The file's mode is set (it is not modelled), and the run is over.       *)
Chmod ==
    /\ oobRun.at = "chmod" /\ OobEnd("done")
    /\ UNCHANGED <<group, admin, oobFile, made, meddled>>

(* A call that fails or is not answered (the step before it stands, its    *)
(* own effect being the step after), or the run is killed.                 *)
OobFail ==
    /\ oobRun.at # "idle" /\ OobEnd("failed")
    /\ UNCHANGED <<group, admin, oobFile, made, meddled>>

DeleteUser ==
    /\ admin # Nobody /\ admin' = Nobody /\ lost' = {} /\ meddled' = TRUE
    /\ UNCHANGED <<group, oobFile, oobRun, oobExit, made>>

RevokeKey ==
    /\ \E k \in admin.keys : admin' = [admin EXCEPT !.keys = @ \ {k}]
    /\ lost' = lost \ {"key"} /\ meddled' = TRUE
    /\ UNCHANGED <<group, oobFile, oobRun, oobExit, made>>

OobNext ==
    \/ \E check \in BOOLEAN : OobBegin(check)
    \/ EnsureGroup \/ ResolveGid \/ EnsurePriv \/ ListUsers \/ EnsureUser
    \/ ListKeys \/ Mint \/ OpenFile \/ WriteFile \/ Chmod \/ OobFail
    \/ DeleteUser \/ RevokeKey
OobSpec == OobInit /\ [][OobNext]_oob

------------------------------------------------------------------------------
OobTypeOK ==
    /\ group \in {"none", "made", "privileged"}
    /\ admin \in {Nobody} \cup [pw : 1 .. Unknown, keys : SUBSET Made]
    /\ oobFile \in [torn : BOOLEAN, pw : 0 .. Unknown, key : 0 .. MaxMade]
    /\ oobRun \in [at : OobSteps, check : BOOLEAN, pw : 0 .. Unknown, key : 0 .. MaxMade]
    /\ oobExit \in {"none", "done", "dry", "failed"}
    /\ made \in 0 .. MaxMade
    /\ lost \subseteq {"pw", "key"}
    /\ meddled \in BOOLEAN

(* "Idempotent: re-runs are noop", "a re-run that only mints a key keeps   *)
(* the pw", "delete+rerun": after an applying run that exits 0, with       *)
(* nobody's hands on the user meanwhile, the file holds the user's own     *)
(* password and its only key, unless an earlier run lost one (cut off      *)
(* between making it and writing it) and the user is still the same.       *)
DoneMeansUsable ==
    oobExit = "done" /\ oobRun.at = "idle" /\ ~meddled /\ lost = {} =>
        /\ group = "privileged" /\ admin # Nobody
        /\ ~oobFile.torn /\ oobFile.pw = admin.pw /\ admin.keys = {oobFile.key}
==============================================================================
