---------------------------- MODULE BringUpProofs ----------------------------
(***************************************************************************)
(* What the scripts of a firewall's bring-up promise: each of them on its  *)
(* own, and the DNS chain and the health gate together.                    *)
(***************************************************************************)
EXTENDS BringUp, TLAPS

(* Each script's part of the system is a system of its own.                *)
THEOREM PartsAreTheScripts == Spec => OobSpec /\ DnsSpec
  <1>1. Init => OobInit /\ DnsInit
    BY DEF Init
  <1>2. [Next]_all => [OobNext]_oob
    BY DEF Next, all
  <1>3. [Next]_all => [DnsNext]_dns
    BY DEF Next, Outside, DnsNext, all
  <1> QED BY <1>1, <1>2, <1>3, PTL DEF Spec, OobSpec, DnsSpec

------------------------------------------------------------------------------
(* scripts/opn_oob_admin.py, for any number of runs, cut off, refused or   *)
(* met by an administrator's hands anywhere.                               *)

(* The user's password is with the run or in the file, unless it was lost; *)
(* while the file is being written, with the run.  What a run made belongs *)
(* to the user it made.                                                    *)
PasswordKept ==
    admin # Nobody =>
        /\ oobRun.at # "write" /\ oobRun.pw # Unset => oobRun.pw = admin.pw
        /\ "pw" \notin lost =>
              \/ oobRun.pw = admin.pw
              \/ oobRun.at # "write" /\ ~oobFile.torn /\ oobFile.pw = admin.pw

(* The same of its key; and there is one key at most.                      *)
KeyKept ==
    /\ \A k, l \in admin.keys : k = l
    /\ oobRun.at = "mint" => admin.keys = {}
    /\ \A k \in admin.keys :
          /\ oobRun.at = "open" /\ oobRun.key # Unset => k = oobRun.key
          /\ "key" \notin lost =>
                \/ oobRun.key = k
                \/ oobRun.at # "write" /\ ~oobFile.torn /\ oobFile.key = k

(* How far a run is: what it has made so far, what it found or did.        *)
Early == {"idle", "group", "gid", "priv", "list"}
Progress ==
    /\ oobRun.at \in Early => oobRun.pw = Unset
    /\ oobRun.at \notin {"open", "write"} => oobRun.key = Unset
    /\ oobRun.check => oobRun.at # "write"
    /\ oobRun.at = "chmod" => ~oobRun.check /\ oobRun.pw = Unset
    /\ ~oobRun.check /\ oobRun.at \notin {"idle", "group", "gid", "priv"} => group = "privileged"
    /\ ~oobRun.check /\ ~meddled =>
          /\ oobRun.at \in {"keys", "mint", "open", "write", "chmod"} => admin # Nobody
          /\ oobRun.at \in {"open", "write", "chmod"} => admin.keys # {}

OobInv == OobTypeOK /\ PasswordKept /\ KeyKept /\ Progress /\ DoneMeansUsable

(* The run and the file as they are at first are of their types.           *)
LEMMA Blank ==
    /\ \A step \in OobSteps, check \in BOOLEAN :
          [NoRun EXCEPT !.at = step, !.check = check]
              \in [at : OobSteps, check : BOOLEAN, pw : 0 .. Unknown, key : 0 .. MaxMade]
    /\ NoRun \in [at : OobSteps, check : BOOLEAN, pw : 0 .. Unknown, key : 0 .. MaxMade]
    /\ Missing \in [torn : BOOLEAN, pw : 0 .. Unknown, key : 0 .. MaxMade]
    /\ Torn \in [torn : BOOLEAN, pw : 0 .. Unknown, key : 0 .. MaxMade]
  <1>1. Unset \in 0 .. Unknown /\ Unset \in 0 .. MaxMade /\ "idle" \in OobSteps
    BY MadeAssumption DEF Unset, Unknown, OobSteps
  <1> QED BY <1>1 DEF NoRun, Missing, Torn

LEMMA OobInitKeeps == OobInit => OobInv
  <1> SUFFICES ASSUME OobInit PROVE OobInv
    OBVIOUS
  <1>1. OobTypeOK
    <2>0. admin \in {Nobody} /\ lost \subseteq {"pw", "key"} /\ meddled \in BOOLEAN
      BY DEF OobInit
    <2>1. made \in 0 .. MaxMade
      BY MadeAssumption DEF OobInit
    <2>2. group \in {"none", "made", "privileged"} /\ oobExit \in {"none", "done", "dry", "failed"}
      BY DEF OobInit
    <2>3. oobFile = Missing /\ oobRun = NoRun
      BY DEF OobInit
    <2> QED BY <2>0, <2>1, <2>2, <2>3, Blank DEF OobTypeOK
  <1> QED BY <1>1 DEF OobInit, OobInv, PasswordKept, KeyKept, Progress, DoneMeansUsable, Nobody,
                      NoRun, Early

(* What a run's end, and a step to the next stage, leave of its record.    *)
LEMMA EndRun ==
    ASSUME NEW status, OobEnd(status)
    PROVE  /\ oobRun' = NoRun /\ oobExit' = status
           /\ status = "done" => lost' = lost
           /\ status # "done" => lost' = lost \cup Dropped
  BY DEF OobEnd

LEMMA GotoRun ==
    ASSUME NEW step \in OobSteps, OobTypeOK, Goto(step)
    PROVE  /\ oobRun' \in [at : OobSteps, check : BOOLEAN, pw : 0 .. Unknown, key : 0 .. MaxMade]
           /\ oobRun'.at = step /\ oobRun'.check = oobRun.check
           /\ oobRun'.pw = oobRun.pw /\ oobRun'.key = oobRun.key
  BY DEF Goto, OobTypeOK

(* A run that ends without success: what it made is lost, or in the file.  *)
LEMMA FailKeeps ==
    ASSUME OobInv, NEW status \in {"failed", "dry"}, OobEnd(status), oobRun.at # "idle",
           UNCHANGED <<group, admin, oobFile, made, meddled>>
    PROVE  OobInv'
  <1>1. /\ oobRun' = NoRun /\ oobExit' = status /\ lost' = lost \cup Dropped
    BY EndRun
  <1>2. OobTypeOK'
    BY <1>1, Blank DEF OobInv, OobTypeOK, Dropped
  <1>3. PasswordKept'
    BY <1>1 DEF OobInv, PasswordKept, NoRun, Dropped, OobTypeOK, Nobody, Unset
  <1>4. KeyKept'
    BY <1>1 DEF OobInv, KeyKept, NoRun, Dropped
  <1>5. Progress' /\ DoneMeansUsable'
    BY <1>1 DEF Progress, DoneMeansUsable, NoRun, Early
  <1> QED BY <1>2, <1>3, <1>4, <1>5 DEF OobInv

(* The steps that only move a run on.                                      *)
LEMMA MoveKeeps ==
    ASSUME OobInv, NEW step \in OobSteps, Goto(step),
           UNCHANGED <<admin, oobFile, oobExit, made, lost, meddled>>,
           group' \in {"none", "made", "privileged"}, group = "privileged" => group' = group,
           \/ oobRun.at = "group" /\ step = "gid"
           \/ oobRun.at = "gid" /\ step = "priv"
           \/ oobRun.at = "priv" /\ step = "list" /\ (oobRun.check \/ group' = "privileged")
           \/ oobRun.at = "keys" /\ step = "open" /\ (oobRun.check \/ admin.keys # {})
           \/ oobRun.at = "keys" /\ step = "mint" /\ ~oobRun.check /\ admin.keys = {}
    PROVE  OobInv'
  <1>1. /\ oobRun' \in [at : OobSteps, check : BOOLEAN, pw : 0 .. Unknown, key : 0 .. MaxMade]
        /\ oobRun'.at = step /\ oobRun'.check = oobRun.check
        /\ oobRun'.pw = oobRun.pw /\ oobRun'.key = oobRun.key
    BY GotoRun DEF OobInv
  <1>2. OobTypeOK'
    BY <1>1 DEF OobInv, OobTypeOK
  <1>3. PasswordKept'
    BY <1>1 DEF OobInv, PasswordKept
  <1>4. KeyKept'
    BY <1>1 DEF OobInv, KeyKept, Progress
  <1>5. Progress'
    BY <1>1 DEF OobInv, Progress, Early
  <1>6. DoneMeansUsable'
    BY <1>1 DEF DoneMeansUsable
  <1> QED BY <1>2, <1>3, <1>4, <1>5, <1>6 DEF OobInv

LEMMA ListKeeps == ASSUME OobInv, ListUsers PROVE OobInv'
  <1>1. OobTypeOK'
    <2>1. made \in 0 .. MaxMade /\ made < MaxMade
      BY DEF ListUsers, OobInv, OobTypeOK
    <2>2. /\ made + 1 \in 0 .. MaxMade /\ made + 1 \in 0 .. Unknown /\ Unset \in 0 .. Unknown
          /\ "user" \in OobSteps
      BY <2>1, MadeAssumption DEF Unknown, Unset, OobSteps
    <2> DEFINE pw == IF admin = Nobody THEN made + 1 ELSE Unset
    <2>3. oobRun' = [oobRun EXCEPT !.at = "user", !.pw = pw] /\ pw \in 0 .. Unknown
      BY <2>2 DEF ListUsers
    <2> HIDE DEF pw
    <2>4. oobRun' \in [at : OobSteps, check : BOOLEAN, pw : 0 .. Unknown, key : 0 .. MaxMade]
      BY <2>2, <2>3 DEF OobInv, OobTypeOK
    <2> QED BY <2>2, <2>4 DEF ListUsers, OobInv, OobTypeOK
  <1>2. /\ oobRun'.at = "user" /\ oobRun'.check = oobRun.check /\ oobRun'.key = oobRun.key
        /\ admin # Nobody => oobRun'.pw = Unset
        /\ UNCHANGED <<group, admin, oobFile, lost, meddled>> /\ oobRun.at = "list"
    BY DEF ListUsers, OobInv, OobTypeOK
  <1>3. PasswordKept'
    BY <1>2 DEF OobInv, PasswordKept, OobTypeOK, Progress, Early, Nobody, Unset, Unknown
  <1>4. KeyKept' /\ Progress' /\ DoneMeansUsable'
    BY <1>2 DEF OobInv, KeyKept, Progress, DoneMeansUsable, Early
  <1> QED BY <1>1, <1>3, <1>4 DEF OobInv

LEMMA UserKeeps == ASSUME OobInv, EnsureUser PROVE OobInv'
  <1>1. /\ oobRun' \in [at : OobSteps, check : BOOLEAN, pw : 0 .. Unknown, key : 0 .. MaxMade]
        /\ oobRun'.at = "keys" /\ oobRun'.check = oobRun.check
        /\ oobRun'.pw = oobRun.pw /\ oobRun'.key = oobRun.key
        /\ UNCHANGED <<group, oobFile, oobExit, made, meddled>> /\ oobRun.at = "user"
    BY GotoRun DEF EnsureUser, OobInv, OobSteps
  <1>2. CASE oobRun.check \/ admin # Nobody
    <2>1. UNCHANGED <<admin, lost>>
      BY <1>2 DEF EnsureUser
    <2>2. OobTypeOK'
      BY <1>1, <2>1 DEF OobInv, OobTypeOK
    <2>3. PasswordKept' /\ KeyKept' /\ DoneMeansUsable'
      BY <1>1, <2>1 DEF OobInv, PasswordKept, KeyKept, DoneMeansUsable
    <2>4. Progress'
      BY <1>1, <1>2, <2>1 DEF OobInv, Progress, Early
    <2> QED BY <2>2, <2>3, <2>4 DEF OobInv
  <1>3. CASE ~oobRun.check /\ admin = Nobody
    <2>1. /\ admin' = [pw |-> IF oobRun.pw = Unset THEN Unknown ELSE oobRun.pw, keys |-> {}]
          /\ lost' = IF oobRun.pw = Unset THEN {"pw"} ELSE {}
      BY <1>3 DEF EnsureUser
    <2>2. admin' # Nobody /\ admin'.pw \in 1 .. Unknown
      BY <2>1, MadeAssumption DEF OobInv, OobTypeOK, Nobody, Unset, Unknown
    <2>3. OobTypeOK'
      BY <1>1, <2>1, <2>2 DEF OobInv, OobTypeOK
    <2>4. PasswordKept' /\ KeyKept' /\ DoneMeansUsable'
      BY <1>1, <2>1 DEF PasswordKept, KeyKept, DoneMeansUsable
    <2>5. Progress'
      BY <1>1, <1>3, <2>2 DEF OobInv, Progress, Early
    <2> QED BY <2>3, <2>4, <2>5 DEF OobInv
  <1> QED BY <1>2, <1>3

LEMMA MintKeeps == ASSUME OobInv, Mint PROVE OobInv'
  <1>1. CASE admin = Nobody
    BY <1>1, FailKeeps DEF Mint
  <1>2. CASE admin # Nobody
    <2>1. /\ admin' = [admin EXCEPT !.keys = @ \cup {made + 1}] /\ made' = made + 1
          /\ oobRun' = [oobRun EXCEPT !.at = "open", !.key = made + 1]
          /\ UNCHANGED <<group, oobFile, oobExit, lost, meddled>>
          /\ oobRun.at = "mint" /\ admin.keys = {} /\ made < MaxMade
      BY <1>2 DEF Mint, OobInv, KeyKept
    <2>2. /\ made + 1 \in 1 .. MaxMade
          /\ admin \in [pw : 1 .. Unknown, keys : SUBSET Made]
      BY <1>2, <2>1, MadeAssumption DEF OobInv, OobTypeOK
    <2>3. /\ admin'.pw = admin.pw /\ admin'.keys = {made + 1} /\ admin' # Nobody
          /\ admin' \in [pw : 1 .. Unknown, keys : SUBSET Made]
      BY <2>1, <2>2 DEF Made, Nobody
    <2>4. /\ oobRun'.at = "open" /\ oobRun'.key = made + 1 /\ oobRun'.pw = oobRun.pw
          /\ oobRun'.check = oobRun.check
          /\ oobRun' \in [at : OobSteps, check : BOOLEAN, pw : 0 .. Unknown, key : 0 .. MaxMade]
      <3>1. made + 1 \in 0 .. MaxMade /\ "open" \in OobSteps
        BY <2>2, MadeAssumption DEF OobSteps
      <3> QED BY <2>1, <3>1 DEF OobInv, OobTypeOK
    <2>5. OobTypeOK'
      BY <2>1, <2>2, <2>3, <2>4, MadeAssumption DEF OobInv, OobTypeOK
    <2>6. PasswordKept'
      BY <1>2, <2>1, <2>3, <2>4 DEF OobInv, PasswordKept
    <2>7. KeyKept' /\ DoneMeansUsable'
      BY <2>3, <2>4 DEF KeyKept, DoneMeansUsable
    <2>8. Progress'
      BY <2>1, <2>3, <2>4 DEF OobInv, Progress, Early
    <2> QED BY <2>5, <2>6, <2>7, <2>8 DEF OobInv
  <1> QED BY <1>1, <1>2

(* Nothing new, or nothing any more: it is all in the file.                *)
LEMMA NothingNew ==
    ASSUME OobInv, oobRun.at \in {"open", "chmod"}, ~oobRun.check, oobRun.pw = Unset, oobRun.key = Unset,
           OobEnd("done"), UNCHANGED <<group, admin, oobFile, made, meddled>>
    PROVE  OobInv'
  <1>1. oobRun' = NoRun /\ oobExit' = "done" /\ lost' = lost
    BY EndRun
  <1>2. OobTypeOK'
    BY <1>1, Blank DEF OobInv, OobTypeOK, OobSteps
  <1>3. PasswordKept' /\ KeyKept' /\ Progress'
    BY <1>1 DEF OobInv, PasswordKept, KeyKept, Progress, NoRun, Early
  <1>4. ASSUME ~meddled, lost = {}
        PROVE  /\ group = "privileged" /\ admin # Nobody
               /\ ~oobFile.torn /\ oobFile.pw = admin.pw /\ admin.keys = {oobFile.key}
    <2>1. group = "privileged" /\ admin # Nobody /\ admin.keys # {}
      BY <1>4 DEF OobInv, Progress
    <2>2. admin.pw # Unset /\ \A k \in admin.keys : k # Unset
      BY <2>1 DEF OobInv, OobTypeOK, Made, Unset
    <2>3. ~oobFile.torn /\ oobFile.pw = admin.pw
      BY <1>4, <2>1, <2>2 DEF OobInv, PasswordKept
    <2>4. \A k \in admin.keys : k = oobFile.key
      BY <1>4, <2>2 DEF OobInv, KeyKept
    <2> QED BY <2>1, <2>3, <2>4
  <1>5. DoneMeansUsable'
    BY <1>1, <1>4 DEF DoneMeansUsable
  <1> QED BY <1>2, <1>3, <1>5 DEF OobInv

LEMMA OpenKeeps == ASSUME OobInv, OpenFile PROVE OobInv'
  <1>1. CASE oobRun.check
    BY <1>1, FailKeeps DEF OpenFile
  <1>2. CASE ~oobRun.check /\ oobRun.pw = Unset /\ oobRun.key = Unset
    BY <1>2, NothingNew DEF OpenFile
  <1>3. CASE ~oobRun.check /\ ~(oobRun.pw = Unset /\ oobRun.key = Unset) /\ oobFile.torn
    BY <1>3, FailKeeps DEF OpenFile
  <1>4. CASE ~oobRun.check /\ ~(oobRun.pw = Unset /\ oobRun.key = Unset) /\ ~oobFile.torn
    <2> DEFINE pw == IF oobRun.pw = Unset THEN oobFile.pw ELSE oobRun.pw
               key == IF oobRun.key = Unset THEN oobFile.key ELSE oobRun.key
    <2>1. /\ oobRun' = [oobRun EXCEPT !.at = "write", !.pw = pw, !.key = key]
          /\ oobFile' = Torn /\ UNCHANGED <<group, admin, oobExit, made, lost, meddled>>
          /\ oobRun.at = "open"
      BY <1>4 DEF OpenFile
    <2>2. /\ pw \in 0 .. Unknown /\ key \in 0 .. MaxMade
      BY DEF OobInv, OobTypeOK
    <2> HIDE DEF pw, key
    <2>3. /\ oobRun'.at = "write" /\ oobRun'.pw = pw /\ oobRun'.key = key
          /\ oobRun'.check = oobRun.check
          /\ oobRun' \in [at : OobSteps, check : BOOLEAN, pw : 0 .. Unknown, key : 0 .. MaxMade]
      BY <2>1, <2>2 DEF OobInv, OobTypeOK, OobSteps
    <2>4. OobTypeOK'
      BY <2>1, <2>3, Blank DEF OobInv, OobTypeOK
    <2>5. ASSUME admin # Nobody, "pw" \notin lost PROVE pw = admin.pw
      <3>1. admin.pw # Unset
        BY <2>5 DEF OobInv, OobTypeOK, Unset
      <3> QED BY <2>1, <2>5, <3>1 DEF OobInv, PasswordKept, pw
    <2>6. ASSUME NEW k \in admin.keys, "key" \notin lost PROVE key = k
      <3>1. k # Unset
        BY <2>6 DEF OobInv, OobTypeOK, Nobody, Made, Unset
      <3> QED BY <2>1, <2>6, <3>1 DEF OobInv, KeyKept, key
    <2>7. PasswordKept' /\ KeyKept'
      BY <2>1, <2>3, <2>5, <2>6 DEF OobInv, PasswordKept, KeyKept
    <2>8. Progress' /\ DoneMeansUsable'
      BY <1>4, <2>1, <2>3 DEF OobInv, Progress, DoneMeansUsable, Early
    <2> QED BY <2>4, <2>7, <2>8 DEF OobInv
  <1> QED BY <1>1, <1>2, <1>3, <1>4

LEMMA WriteKeeps == ASSUME OobInv, WriteFile PROVE OobInv'
  <1>1. /\ oobRun' = [NoRun EXCEPT !.at = "chmod"] /\ oobRun.at = "write"
        /\ oobFile' = [torn |-> FALSE, pw |-> oobRun.pw, key |-> oobRun.key]
        /\ UNCHANGED <<group, admin, oobExit, made, lost, meddled>>
    BY DEF WriteFile
  <1>2. /\ oobRun' \in [at : OobSteps, check : BOOLEAN, pw : 0 .. Unknown, key : 0 .. MaxMade]
        /\ oobRun'.at = "chmod" /\ oobRun'.check = FALSE /\ oobRun'.pw = Unset /\ oobRun'.key = Unset
    <2>1. oobRun' = [at |-> "chmod", check |-> FALSE, pw |-> Unset, key |-> Unset]
      BY <1>1 DEF NoRun
    <2>2. "chmod" \in OobSteps /\ Unset \in 0 .. Unknown /\ Unset \in 0 .. MaxMade
      BY MadeAssumption DEF OobSteps, Unset, Unknown
    <2> QED BY <2>1, <2>2
  <1>3. OobTypeOK'
    BY <1>1, <1>2 DEF OobInv, OobTypeOK
  <1>4. PasswordKept' /\ KeyKept' /\ DoneMeansUsable'
    BY <1>1, <1>2 DEF OobInv, PasswordKept, KeyKept, DoneMeansUsable
  <1>5. Progress'
    BY <1>1, <1>2 DEF OobInv, Progress, Early
  <1> QED BY <1>3, <1>4, <1>5 DEF OobInv

LEMMA ChmodKeeps == ASSUME OobInv, Chmod PROVE OobInv'
  <1>1. /\ oobRun.at = "chmod" /\ OobEnd("done")
        /\ UNCHANGED <<group, admin, oobFile, made, meddled>>
    BY DEF Chmod
  <1>2. ~oobRun.check /\ oobRun.pw = Unset /\ oobRun.key = Unset
    BY <1>1 DEF OobInv, Progress
  <1> QED BY <1>1, <1>2, NothingNew

(* An administrator's hands.                                               *)
LEMMA HandsKeep == ASSUME OobInv, DeleteUser \/ RevokeKey PROVE OobInv'
  <1>1. CASE DeleteUser
    <2>1. /\ admin' = Nobody /\ lost' = {} /\ meddled'
          /\ UNCHANGED <<group, oobFile, oobRun, oobExit, made>>
      BY <1>1 DEF DeleteUser
    <2>2. OobTypeOK'
      BY <2>1 DEF OobInv, OobTypeOK
    <2> QED BY <2>1, <2>2 DEF OobInv, PasswordKept, KeyKept, Progress, DoneMeansUsable, Nobody
  <1>2. CASE RevokeKey
    <2>1. PICK k \in admin.keys : admin' = [admin EXCEPT !.keys = @ \ {k}]
      BY <1>2 DEF RevokeKey
    <2>2. admin \in [pw : 1 .. Unknown, keys : SUBSET Made]
      BY <2>1 DEF OobInv, OobTypeOK, Nobody
    <2>3. /\ admin'.pw = admin.pw /\ admin'.keys = {} /\ admin # Nobody
          /\ admin' \in [pw : 1 .. Unknown, keys : SUBSET Made]
      BY <2>1, <2>2 DEF OobInv, KeyKept, Nobody
    <2>4. /\ lost' = lost \ {"key"} /\ meddled'
          /\ UNCHANGED <<group, oobFile, oobRun, oobExit, made>>
      BY <1>2 DEF RevokeKey
    <2>5. OobTypeOK'
      BY <2>3, <2>4 DEF OobInv, OobTypeOK
    <2>6. PasswordKept'
      BY <2>3, <2>4 DEF OobInv, PasswordKept
    <2> QED BY <2>3, <2>4, <2>5, <2>6 DEF OobInv, KeyKept, Progress, DoneMeansUsable
  <1> QED BY <1>1, <1>2

LEMMA OobBeginKeeps == ASSUME OobInv, NEW check \in BOOLEAN, OobBegin(check) PROVE OobInv'
  <1>1. /\ oobRun' = [NoRun EXCEPT !.at = "group", !.check = check] /\ oobRun.at = "idle"
        /\ meddled' = FALSE /\ UNCHANGED <<group, admin, oobFile, oobExit, made, lost>>
    BY DEF OobBegin
  <1>2. OobTypeOK'
    BY <1>1, Blank DEF OobInv, OobTypeOK, OobSteps
  <1>3. PasswordKept' /\ KeyKept' /\ Progress' /\ DoneMeansUsable'
    BY <1>1 DEF OobInv, PasswordKept, KeyKept, Progress, DoneMeansUsable, NoRun, Early
  <1> QED BY <1>2, <1>3 DEF OobInv

LEMMA OobStepKeeps == ASSUME OobInv, [OobNext]_oob PROVE OobInv'
  <1>1. CASE EnsureGroup \/ EnsurePriv \/ ListKeys
    <2>1. CASE EnsureGroup
      BY <2>1, MoveKeeps DEF EnsureGroup, OobSteps, OobInv, OobTypeOK
    <2>2. CASE EnsurePriv
      BY <2>2, MoveKeeps DEF EnsurePriv, OobSteps, OobInv, OobTypeOK
    <2>3. CASE ListKeys
      BY <2>3, MoveKeeps DEF ListKeys, OobSteps, OobInv, OobTypeOK
    <2> QED BY <1>1, <2>1, <2>2, <2>3
  <1>2. CASE ResolveGid
    <2>1. CASE group = "none" /\ ~oobRun.check
      BY <1>2, <2>1, FailKeeps DEF ResolveGid
    <2>2. CASE ~(group = "none" /\ ~oobRun.check)
      BY <1>2, <2>2, MoveKeeps DEF ResolveGid, OobSteps, OobInv, OobTypeOK
    <2> QED BY <2>1, <2>2
  <1>3. CASE OobFail
    BY <1>3, FailKeeps DEF OobFail
  <1>4. CASE UNCHANGED oob
    BY <1>4 DEF oob, OobInv, OobTypeOK, PasswordKept, KeyKept, Progress, DoneMeansUsable
  <1> QED BY <1>1, <1>2, <1>3, <1>4, OobBeginKeeps, ListKeeps, UserKeeps, MintKeeps, OpenKeeps,
             WriteKeeps, ChmodKeeps, HandsKeep DEF OobNext

(* After an applying run that exits 0, with nobody's hands on the user     *)
(* meanwhile, the file holds the user's own password and its only key,     *)
(* unless an earlier run lost one: for any number of runs, wherever they   *)
(* were cut off and whatever was deleted between and beside them.          *)
THEOREM DoneIsUsable == OobSpec => []DoneMeansUsable
  <1>1. OobInv => DoneMeansUsable
    BY DEF OobInv
  <1>2. OobInv /\ [OobNext]_oob => OobInv'
    BY OobStepKeeps
  <1> QED BY <1>1, <1>2, OobInitKeeps, PTL DEF OobSpec

------------------------------------------------------------------------------
(* scripts/fw_chain_phase1_apply.py, for any number of entries and runs,   *)
(* cut off, refused or undone by hand anywhere.                            *)

(* What a run has before it is a piece of the full list, in its order,     *)
(* "start" and "drop" being parts of "restart" and "list".                 *)
Order ==
    {<<"general", "servers">>, <<"servers", "restart">>, <<"restart", "forwarding">>,
     <<"start", "forwarding">>, <<"forwarding", "list">>, <<"list", "reconfigure">>,
     <<"drop", "reconfigure">>, <<"reconfigure", "end">>}
Stages == {"general", "servers", "restart", "start", "forwarding", "list", "drop",
           "reconfigure", "end"}
Ordered(p) == \A i \in 1 .. Len(p) - 1 : <<p[i], p[i + 1]>> \in Order
(* A full run.                                                             *)
Whole(p) == p # << >> /\ p[Len(p)] = "end"

Undone(S, what) == S \cap what # {}
PastServers == {"restart", "start", "forwarding", "list", "drop", "reconfigure", "end"}
PastRestart == {"forwarding", "list", "drop", "reconfigure", "end"}
PastForwarding == {"list", "drop", "reconfigure", "end"}

(* No query leaves by the old ways under these settings.                   *)
Closed(s) == ~s.forwarding /\ s.dot = {}
Complete == dnscrypt.general /\ dnscrypt.servers

PlanInv ==
    /\ plan \in Seq(Stages) /\ Ordered(plan)
    /\ At("end") => Whole(plan)
    /\ plan # << >> /\ "part" \notin faults =>
          Whole(plan) \/ \A i \in DOMAIN plan : plan[i] \in {"general", "servers", "restart", "start"}

(* How far a full run has come, if no post of it was refused and nobody    *)
(* undid it by hand.                                                       *)
RunInv ==
    Whole(plan) /\ "astray" \notin slips =>
        /\ Head(plan) # "general" => dnscrypt.general
        /\ Head(plan) \in PastServers => dnscrypt.servers
        /\ Head(plan) \in PastRestart /\ proxy.runs => proxy.general /\ proxy.servers
        /\ Head(plan) \in PastRestart /\ "down" \notin slips => Answers
        /\ Head(plan) \in PastForwarding => ~unbound.forwarding
        /\ Head(plan) = "drop" => unbound.dot \subseteq left
        /\ Head(plan) \in {"reconfigure", "end"} => unbound.dot = {}
        /\ Head(plan) = "end" => Closed(resolver)

(* What a full run has left behind, until a post is refused or somebody    *)
(* undoes it; and a firewall that had other ways out depends on the proxy  *)
(* only once that answered.                                                *)
LeftInv ==
    /\ ~Undone(faults, {"unrun", "astray"}) =>
          /\ Closed(unbound) /\ Closed(resolver)
          /\ Complete /\ (proxy.runs => proxy.general /\ proxy.servers)
    /\ Dots # {} /\ ~Undone(faults, {"part", "astray", "down"})
       /\ (Closed(unbound) \/ Closed(resolver)) => Answers

DnsInv == DnsTypeOK /\ PlanInv /\ slips \subseteq faults /\ RunInv /\ LeftInv

(* Lists of stages: the rest of an ordered one is ordered, and whole if it *)
(* was; likewise with its head exchanged for one with the same successors. *)
LEMMA TailOrdered ==
    ASSUME NEW p \in Seq(Stages), p # << >>, Ordered(p)
    PROVE  /\ Tail(p) \in Seq(Stages) /\ Ordered(Tail(p))
           /\ Tail(p) # << >> => <<Head(p), Head(Tail(p))>> \in Order
           /\ Tail(p) # << >> => (Whole(Tail(p)) <=> Whole(p))
           /\ Tail(p) = << >> => p[Len(p)] = Head(p)
           /\ \A i \in DOMAIN Tail(p) : i + 1 \in DOMAIN p /\ Tail(p)[i] = p[i + 1]
  <1> DEFINE t == Tail(p)
  <1>1. /\ t \in Seq(Stages) /\ Len(t) = Len(p) - 1 /\ Len(p) \in Nat \ {0}
        /\ \A i \in 1 .. Len(t) : t[i] = p[i + 1]
    OBVIOUS
  <1>2. Ordered(t)
    BY <1>1 DEF Ordered
  <1>3. t # << >> => Len(t) >= 1 /\ Head(t) = t[1] /\ Head(p) = p[1]
    BY <1>1
  <1>4. t # << >> => <<Head(p), Head(t)>> \in Order
    BY <1>1, <1>3 DEF Ordered
  <1>5. t # << >> => t[Len(t)] = p[Len(p)]
    BY <1>1, <1>3
  <1>6. t = << >> => p[Len(p)] = Head(p)
    BY <1>1
  <1>7. \A i \in DOMAIN t : i + 1 \in DOMAIN p /\ t[i] = p[i + 1]
    BY <1>1
  <1> HIDE DEF t
  <1> QED BY <1>1, <1>2, <1>4, <1>5, <1>6, <1>7 DEF Whole, t

LEMMA TurnOrdered ==
    ASSUME NEW p \in Seq(Stages), p # << >>, Ordered(p), NEW x \in Stages,
           <<Head(p), x>> \in {<<"restart", "start">>, <<"list", "drop">>}
    PROVE  LET q == <<x>> \o Tail(p)
           IN  /\ q \in Seq(Stages) /\ Ordered(q) /\ q # << >> /\ Head(q) = x
               /\ Whole(q) <=> Whole(p)
               /\ \A i \in DOMAIN q : i \in DOMAIN p /\ (q[i] = p[i] \/ (i = 1 /\ q[i] = x))
  <1> DEFINE q == <<x>> \o Tail(p)
  <1>1. /\ q \in Seq(Stages) /\ Len(q) = Len(p) /\ Len(p) \in Nat \ {0}
        /\ q[1] = x /\ \A i \in 2 .. Len(q) : q[i] = p[i]
    OBVIOUS
  <1>2. p[1] = Head(p) /\ Head(q) = x /\ q # << >>
    BY <1>1
  <1>3. ASSUME NEW y, <<p[1], y>> \in Order PROVE <<x, y>> \in Order
    BY <1>2, <1>3 DEF Order
  <1>4. ASSUME NEW i \in 1 .. Len(q) - 1 PROVE <<q[i], q[i + 1]>> \in Order
    <2>1. <<p[i], p[i + 1]>> \in Order /\ q[i + 1] = p[i + 1]
      BY <1>1 DEF Ordered
    <2>2. CASE i = 1
      BY <1>1, <1>3, <2>1, <2>2
    <2>3. CASE i # 1
      <3>1. q[i] = p[i]
        BY <1>1, <2>3
      <3> QED BY <2>1, <3>1
    <2> QED BY <2>2, <2>3
  <1>5. Whole(q) <=> Whole(p)
    <2>1. CASE Len(p) = 1
      <3>1. p[Len(p)] # "end" /\ q[Len(q)] # "end"
        BY <1>1, <1>2, <2>1
      <3> QED BY <1>2, <3>1 DEF Whole
    <2>2. CASE Len(p) # 1
      BY <1>1, <1>2, <2>2 DEF Whole
    <2> QED BY <2>1, <2>2
  <1>6. \A i \in DOMAIN q : i \in DOMAIN p /\ (q[i] = p[i] \/ (i = 1 /\ q[i] = x))
    BY <1>1
  <1> QED BY <1>1, <1>2, <1>4, <1>5, <1>6 DEF Ordered

(* What becomes of a run's plan in one step.                               *)
LEMMA PlanMoves ==
    ASSUME PlanInv, plan # << >>, plan' = Tail(plan), "part" \in faults => "part" \in faults'
    PROVE  /\ PlanInv'
           /\ plan' # << >> => <<Head(plan), Head(plan')>> \in Order
           /\ Whole(plan)' => Whole(plan)
           /\ Whole(plan) /\ Head(plan) # "end" => Whole(plan)' /\ plan' # << >>
  <1>1. plan \in Seq(Stages) /\ Ordered(plan)
    BY DEF PlanInv
  <1>2. Whole(plan)' => Whole(plan)
    BY <1>1, TailOrdered DEF Whole
  <1>3. Whole(plan) /\ Head(plan) # "end" => plan' # << >> /\ Whole(plan)'
    BY <1>1, TailOrdered DEF Whole
  <1>4. At("end")' => Whole(plan)'
    <2> SUFFICES ASSUME At("end")' PROVE Whole(plan)'
      OBVIOUS
    <2>1. plan' # << >> /\ Head(plan') = "end"
      BY DEF At
    <2>2. plan' \in Seq(Stages) /\ Ordered(plan')
      BY <1>1, TailOrdered
    <2>3. Tail(plan') = << >>
      <3> SUFFICES ASSUME Tail(plan') # << >> PROVE FALSE
        OBVIOUS
      <3>1. <<"end", Head(Tail(plan'))>> \in Order
        BY <2>1, <2>2, TailOrdered
      <3> QED BY <3>1 DEF Order
    <2> QED BY <2>1, <2>2, <2>3, TailOrdered DEF Whole
  <1>5. ASSUME plan' # << >>, "part" \notin faults', ~Whole(plan)', NEW i \in DOMAIN plan'
        PROVE  plan'[i] \in {"general", "servers", "restart", "start"}
    <2>1. i + 1 \in DOMAIN plan /\ plan'[i] = plan[i + 1]
      BY <1>1, TailOrdered
    <2>2. ~Whole(plan)
      BY <1>1, <1>5, TailOrdered
    <2> QED BY <1>5, <2>1, <2>2 DEF PlanInv
  <1> QED BY <1>1, <1>2, <1>3, <1>4, <1>5, TailOrdered DEF PlanInv

LEMMA PlanTurns ==
    ASSUME PlanInv, NEW x, <<Head(plan), x>> \in {<<"restart", "start">>, <<"list", "drop">>},
           plan # << >>, plan' = <<x>> \o Tail(plan), "part" \in faults => "part" \in faults'
    PROVE  /\ PlanInv' /\ plan' # << >> /\ Head(plan') = x
           /\ Whole(plan)' <=> Whole(plan)
  <1>1. plan \in Seq(Stages) /\ Ordered(plan) /\ x \in {"start", "drop"} /\ x \in Stages
    BY DEF PlanInv, Stages
  <1>2. /\ plan' \in Seq(Stages) /\ Ordered(plan') /\ plan' # << >> /\ Head(plan') = x
        /\ Whole(plan') <=> Whole(plan)
        /\ \A i \in DOMAIN plan' : i \in DOMAIN plan
                 /\ (plan'[i] = plan[i] \/ (i = 1 /\ plan'[i] = x))
    BY <1>1, TurnOrdered
  <1>3. ~At("end")'
    BY <1>1, <1>2 DEF At
  <1>4. ASSUME "part" \notin faults', ~Whole(plan)', NEW i \in DOMAIN plan'
        PROVE  plan'[i] \in {"general", "servers", "restart", "start"}
    <2>1. \A j \in DOMAIN plan : plan[j] \in {"general", "servers", "restart", "start"}
      BY <1>2, <1>4 DEF PlanInv
    <2>2. x = "start"
      <3>1. plan[1] = Head(plan) /\ 1 \in DOMAIN plan
        BY <1>1
      <3> QED BY <2>1, <3>1
    <2> QED BY <1>2, <1>4, <2>1, <2>2
  <1> QED BY <1>2, <1>3, <1>4 DEF PlanInv

LEMMA PlanStays ==
    ASSUME PlanInv, plan' = plan, "part" \in faults => "part" \in faults'
    PROVE  PlanInv' /\ (Whole(plan)' <=> Whole(plan))
  BY DEF PlanInv, At, Whole

LEMMA PlanEnds ==
    ASSUME plan' = << >>
    PROVE  PlanInv' /\ ~Whole(plan)'
  BY DEF PlanInv, Ordered, At, Whole

(* The stages are those of the list, and the two that stand for a part.    *)
LEMMA StagesNamed == {"start", "drop"} \cup {Full[i] : i \in DOMAIN Full} = Stages
  <1>1. DOMAIN Full = 1 .. 7
    BY DEF Full
  <1>2. /\ Full[1] = "general" /\ Full[2] = "servers" /\ Full[3] = "restart"
        /\ Full[4] = "forwarding" /\ Full[5] = "list" /\ Full[6] = "reconfigure"
        /\ Full[7] = "end"
    BY DEF Full
  <1>3. \A x \in 1 .. 7 : x \in {1, 2, 3, 4, 5, 6, 7}
    OBVIOUS
  <1>4. \A i \in DOMAIN Full : Full[i] \in Stages
    BY <1>1, <1>2, <1>3 DEF Stages
  <1>5. {"general", "servers", "restart", "forwarding", "list", "reconfigure", "end"}
          \subseteq {Full[i] : i \in DOMAIN Full}
    BY <1>1, <1>2
  <1> QED BY <1>4, <1>5 DEF Stages

(* The proxy starts with what is saved, or it does not run.                *)
LEMMA StartedProxy ==
    ASSUME dnscrypt \in [general : BOOLEAN, servers : BOOLEAN]
    PROVE  /\ Started \in [general : BOOLEAN, servers : BOOLEAN, runs : BOOLEAN]
           /\ dnscrypt.general => Started.runs /\ Started.general
                                   /\ Started.servers = dnscrypt.servers
           /\ ~dnscrypt.general => Started = Down
           /\ Down \in [general : BOOLEAN, servers : BOOLEAN, runs : BOOLEAN] /\ ~Down.runs
  <1>1. Down \in [general : BOOLEAN, servers : BOOLEAN, runs : BOOLEAN] /\ ~Down.runs
    BY DEF Down
  <1>2. ASSUME dnscrypt.general
        PROVE  /\ Started \in [general : BOOLEAN, servers : BOOLEAN, runs : BOOLEAN]
               /\ Started.runs /\ Started.general /\ Started.servers = dnscrypt.servers
    BY <1>2 DEF Started
  <1> QED BY <1>1, <1>2 DEF Started

(* The stage a run comes to from another one.                              *)
LEMMA Follows ==
    ASSUME NEW x, NEW y, <<x, y>> \in Order
    PROVE  /\ x = "general" => y = "servers"
           /\ x = "servers" => y = "restart"
           /\ x \in {"restart", "start"} => y = "forwarding"
           /\ x = "forwarding" => y = "list"
           /\ x \in {"list", "drop"} => y = "reconfigure"
           /\ x = "reconfigure" => y = "end"
           /\ x # "end" /\ y # "drop"
  BY DEF Order

(* A stage done, the run goes on to the one that follows.                  *)
LEMMA GoesOn ==
    ASSUME DnsInv, NEW x, At(x), Go, "part" \in faults => "part" \in faults'
    PROVE  /\ PlanInv' /\ ~At("drop")'
           /\ plan' \in Seq({"start", "drop"} \cup {Full[i] : i \in DOMAIN Full})
           /\ Whole(plan)' =>
                 Whole(plan) /\ Head(plan) = x /\ plan' # << >> /\ <<x, Head(plan')>> \in Order
  <1>1. PlanInv /\ plan # << >> /\ Head(plan) = x /\ plan' = Tail(plan)
    BY DEF DnsInv, At, Go
  <1>2. /\ PlanInv' /\ (plan' # << >> => <<x, Head(plan')>> \in Order)
        /\ Whole(plan)' => Whole(plan)
    BY <1>1, PlanMoves
  <1>3. ~At("drop")'
    BY <1>2, Follows DEF At
  <1> QED BY <1>1, <1>2, <1>3, StagesNamed DEF PlanInv, Whole

LEMMA GeneralKeeps == ASSUME DnsInv, NEW ok \in BOOLEAN, SetGeneral(ok) PROVE DnsInv'
  <1>1. DnsTypeOK /\ slips \subseteq faults /\ LeftInv /\ RunInv
    BY DEF DnsInv
  <1>2. /\ At("general") /\ left = {} /\ UNCHANGED <<proxy, unbound, resolver, left>>
        /\ dnscrypt' \in [general : BOOLEAN, servers : BOOLEAN]
        /\ Complete => Complete'
    BY <1>1 DEF SetGeneral, DnsTypeOK, At, Complete
  <1>3. /\ slips' \subseteq faults' /\ slips' \subseteq Slips /\ faults' \subseteq Slips
        /\ slips \subseteq slips' /\ faults \subseteq faults'
    BY <1>1 DEF SetGeneral, Slip, DnsTypeOK, Slips
  <1>4. LeftInv'
    BY <1>1, <1>2, <1>3 DEF LeftInv, Undone, Closed, Answers, Complete
  <1>5. CASE ok
    <2>1. Go /\ dnscrypt' = [dnscrypt EXCEPT !.general = TRUE]
      BY <1>5 DEF SetGeneral
    <2>2. /\ PlanInv' /\ ~At("drop")'
          /\ plan' \in Seq({"start", "drop"} \cup {Full[i] : i \in DOMAIN Full})
          /\ Whole(plan)' =>
               Whole(plan) /\ plan' # << >> /\ <<"general", Head(plan')>> \in Order
      BY <1>2, <1>3, <2>1, GoesOn
    <2>3. dnscrypt'.general
      BY <1>1, <2>1 DEF DnsTypeOK
    <2>4. Whole(plan)' => Head(plan') = "servers"
      BY <2>2, Follows
    <2>5. RunInv'
      BY <2>3, <2>4 DEF RunInv, PastServers, PastRestart, PastForwarding
    <2>6. DnsTypeOK'
      BY <1>1, <1>2, <1>3, <2>2 DEF DnsTypeOK
    <2> QED BY <1>3, <1>4, <2>2, <2>5, <2>6 DEF DnsInv
  <1>6. CASE ~ok
    <2>1. plan' = << >>
      BY <1>6 DEF SetGeneral
    <2>2. PlanInv' /\ ~Whole(plan)'
      BY <2>1, PlanEnds
    <2>3. DnsTypeOK'
      BY <1>1, <1>2, <1>3, <2>1 DEF DnsTypeOK, At
    <2> QED BY <1>3, <1>4, <2>2, <2>3 DEF DnsInv, RunInv
  <1> QED BY <1>5, <1>6

LEMMA ServersKeeps == ASSUME DnsInv, NEW ok \in BOOLEAN, SetServers(ok) PROVE DnsInv'
  <1>1. DnsTypeOK /\ slips \subseteq faults /\ LeftInv /\ RunInv
    BY DEF DnsInv
  <1>2. /\ At("servers") /\ Go /\ left = {} /\ UNCHANGED <<proxy, unbound, resolver, left>>
        /\ dnscrypt' \in [general : BOOLEAN, servers : BOOLEAN]
        /\ (Complete => Complete') /\ dnscrypt'.general = dnscrypt.general
        /\ ok => dnscrypt'.servers
    BY <1>1 DEF SetServers, DnsTypeOK, At, Complete
  <1>3. /\ slips' \subseteq faults' /\ slips' \subseteq Slips /\ faults' \subseteq Slips
        /\ slips \subseteq slips' /\ faults \subseteq faults'
        /\ ~ok => "astray" \in slips'
    BY <1>1 DEF SetServers, Slip, DnsTypeOK, Slips
  <1>4. LeftInv'
    BY <1>1, <1>2, <1>3 DEF LeftInv, Undone, Closed, Answers, Complete
  <1>5. /\ PlanInv' /\ ~At("drop")'
        /\ plan' \in Seq({"start", "drop"} \cup {Full[i] : i \in DOMAIN Full})
        /\ Whole(plan)' =>
             /\ Whole(plan) /\ Head(plan) = "servers"
             /\ plan' # << >> /\ <<"servers", Head(plan')>> \in Order
    BY <1>2, <1>3, GoesOn
  <1>6. RunInv'
    <2> SUFFICES ASSUME Whole(plan)', "astray" \notin slips' PROVE RunInv'
      BY DEF RunInv
    <2>1. Head(plan') = "restart"
      BY <1>5, Follows
    <2>2. dnscrypt'.general /\ dnscrypt'.servers
      BY <1>1, <1>2, <1>3, <1>5 DEF RunInv
    <2> QED BY <2>1, <2>2 DEF RunInv, PastServers, PastRestart, PastForwarding
  <1>7. DnsTypeOK'
    BY <1>1, <1>2, <1>3, <1>5 DEF DnsTypeOK
  <1> QED BY <1>3, <1>4, <1>5, <1>6, <1>7 DEF DnsInv

(* A stage made of two goes on to its second part.                         *)
LEMMA TurnsTo ==
    ASSUME DnsInv, plan # << >>, "part" \in faults => "part" \in faults',
           \/ Head(plan) = "restart" /\ plan' = <<"start">> \o Tail(plan)
           \/ Head(plan) = "list" /\ plan' = <<"drop">> \o Tail(plan)
    PROVE  /\ PlanInv' /\ plan' # << >> /\ (Whole(plan)' => Whole(plan))
           /\ Head(plan) = "restart" => Head(plan') = "start"
           /\ Head(plan) = "list" => Head(plan') = "drop"
           /\ plan' \in Seq({"start", "drop"} \cup {Full[i] : i \in DOMAIN Full})
  <1>1. PICK x : /\ <<Head(plan), x>> \in {<<"restart", "start">>, <<"list", "drop">>}
                 /\ plan' = <<x>> \o Tail(plan)
    <2>1. CASE Head(plan) = "restart" /\ plan' = <<"start">> \o Tail(plan)
      BY <2>1
    <2>2. CASE Head(plan) = "list" /\ plan' = <<"drop">> \o Tail(plan)
      BY <2>2
    <2> QED BY <2>1, <2>2
  <1>2. PlanInv' /\ plan' # << >> /\ Head(plan') = x /\ (Whole(plan)' <=> Whole(plan))
    BY <1>1, PlanTurns DEF DnsInv
  <1> QED BY <1>1, <1>2, StagesNamed DEF PlanInv

(* The proxy started, or not: what a run left behind holds on.             *)
LEMMA BroughtKeeps ==
    ASSUME DnsInv, proxy' \in {Started, Down}, Brought, UNCHANGED <<dnscrypt, unbound, resolver>>
    PROVE  /\ proxy' \in [general : BOOLEAN, servers : BOOLEAN, runs : BOOLEAN]
           /\ slips' \subseteq faults' /\ slips' \subseteq Slips /\ faults' \subseteq Slips
           /\ \A f \in Slips \ {"down"} : (f \in slips' <=> f \in slips) /\ (f \in faults' <=> f \in faults)
           /\ "down" \notin faults' => Answers'
           /\ "down" \notin slips' => Answers'
           /\ proxy'.runs => proxy'.general /\ proxy'.servers = dnscrypt.servers
           /\ LeftInv'
  <1>1. DnsTypeOK /\ slips \subseteq faults /\ LeftInv
    BY DEF DnsInv
  <1>2. /\ proxy' \in [general : BOOLEAN, servers : BOOLEAN, runs : BOOLEAN]
        /\ proxy'.runs => proxy'.general /\ proxy'.servers = dnscrypt.servers
    BY <1>1, StartedProxy DEF DnsTypeOK
  <1>3. /\ slips' \subseteq faults' /\ slips' \subseteq Slips /\ faults' \subseteq Slips
        /\ \A f \in Slips \ {"down"} : (f \in slips' <=> f \in slips) /\ (f \in faults' <=> f \in faults)
        /\ ~proxy'.runs => "down" \in slips' /\ "down" \in faults'
    BY <1>1 DEF Brought, Slip, DnsTypeOK, Slips
  <1>4. /\ "down" \notin faults' => Answers'
        /\ "down" \notin slips' => Answers'
    BY <1>2, <1>3 DEF Answers
  <1>5. ASSUME ~Undone(faults', {"unrun", "astray"})
        PROVE  /\ Closed(unbound)' /\ Closed(resolver)' /\ Complete'
               /\ proxy'.runs => proxy'.general /\ proxy'.servers
    <2>1. ~Undone(faults, {"unrun", "astray"})
      BY <1>3, <1>5 DEF Undone, Slips
    <2> QED BY <1>1, <1>2, <2>1 DEF LeftInv, Closed, Complete
  <1>6. LeftInv'
    BY <1>4, <1>5 DEF LeftInv, Undone
  <1> QED BY <1>2, <1>3, <1>4, <1>6

(* A stage of the proxy's done: where the run is then.                     *)
LEMMA ProxyStage ==
    ASSUME DnsInv, proxy' \in {Started, Down}, Brought, NEW x \in {"restart", "start"}, At(x),
           Go, UNCHANGED <<dnscrypt, unbound, resolver, left>>
    PROVE  DnsInv'
  <1>1. DnsTypeOK /\ RunInv /\ left = {}
    BY DEF DnsInv, DnsTypeOK, At
  <1>2. /\ proxy' \in [general : BOOLEAN, servers : BOOLEAN, runs : BOOLEAN]
        /\ slips' \subseteq faults' /\ slips' \subseteq Slips /\ faults' \subseteq Slips
        /\ ("part" \in faults' <=> "part" \in faults) /\ ("astray" \in slips' <=> "astray" \in slips)
        /\ "down" \notin slips' => Answers'
        /\ proxy'.runs => proxy'.general /\ proxy'.servers = dnscrypt.servers
        /\ LeftInv'
    BY BroughtKeeps DEF Slips
  <1>3. /\ PlanInv' /\ ~At("drop")'
        /\ plan' \in Seq({"start", "drop"} \cup {Full[i] : i \in DOMAIN Full})
        /\ Whole(plan)' =>
             /\ Whole(plan) /\ Head(plan) = x
             /\ plan' # << >> /\ <<x, Head(plan')>> \in Order
    BY <1>2, GoesOn
  <1>4. RunInv'
    <2> SUFFICES ASSUME Whole(plan)', "astray" \notin slips' PROVE RunInv'
      BY DEF RunInv
    <2>1. Head(plan') = "forwarding"
      BY <1>3, Follows
    <2>2. dnscrypt'.general /\ dnscrypt'.servers
      BY <1>1, <1>2, <1>3 DEF RunInv, PastServers
    <2> QED BY <1>2, <2>1, <2>2 DEF RunInv, PastServers, PastRestart, PastForwarding
  <1>5. DnsTypeOK'
    BY <1>1, <1>2, <1>3 DEF DnsTypeOK
  <1> QED BY <1>2, <1>3, <1>4, <1>5 DEF DnsInv

LEMMA RestartKeeps == ASSUME DnsInv, NEW ok \in BOOLEAN, Restart(ok) PROVE DnsInv'
  <1>1. /\ At("restart") /\ proxy' \in {Started, Down} /\ Brought
        /\ UNCHANGED <<dnscrypt, unbound, resolver, left>>
    BY DEF Restart
  <1>2. CASE proxy' # Down
    <2>1. Go
      BY <1>2 DEF Restart, Go
    <2> QED BY <1>1, <2>1, ProxyStage
  <1>3. CASE proxy' = Down
    <2>1. plan' = <<"start">> \o Tail(plan) /\ Head(plan) = "restart"
      BY <1>1, <1>3 DEF Restart, At
    <2>2. /\ DnsTypeOK /\ RunInv /\ left = {} /\ plan # << >>
      BY <1>1 DEF DnsInv, DnsTypeOK, At
    <2>3. /\ proxy' \in [general : BOOLEAN, servers : BOOLEAN, runs : BOOLEAN]
          /\ slips' \subseteq faults' /\ slips' \subseteq Slips /\ faults' \subseteq Slips
          /\ ("part" \in faults' <=> "part" \in faults) /\ ("astray" \in slips' <=> "astray" \in slips)
          /\ LeftInv'
      BY <1>1, BroughtKeeps DEF Slips
    <2>4. /\ PlanInv' /\ plan' # << >> /\ Head(plan') = "start" /\ (Whole(plan)' => Whole(plan))
          /\ plan' \in Seq({"start", "drop"} \cup {Full[i] : i \in DOMAIN Full})
      BY <2>1, <2>2, <2>3, TurnsTo
    <2>5. RunInv'
      <3> SUFFICES ASSUME Whole(plan)', "astray" \notin slips' PROVE RunInv'
        BY DEF RunInv
      <3>1. dnscrypt'.general /\ dnscrypt'.servers
        BY <1>1, <2>1, <2>2, <2>3, <2>4 DEF RunInv, PastServers
      <3> QED BY <2>4, <3>1 DEF RunInv, PastServers, PastRestart, PastForwarding
    <2>6. DnsTypeOK'
      BY <1>1, <2>2, <2>3, <2>4 DEF DnsTypeOK, At
    <2> QED BY <2>3, <2>4, <2>5, <2>6 DEF DnsInv
  <1> QED BY <1>2, <1>3

LEMMA StartKeeps == ASSUME DnsInv, NEW ok \in BOOLEAN, Start(ok) PROVE DnsInv'
  <1>1. /\ At("start") /\ Go /\ proxy' \in {Started, Down} /\ Brought
        /\ UNCHANGED <<dnscrypt, unbound, resolver, left>>
    BY DEF Start
  <1> QED BY <1>1, ProxyStage

LEMMA RefusedKeeps == ASSUME DnsInv, RestartRefused PROVE DnsInv'
  <1>1. /\ DnsTypeOK /\ LeftInv /\ slips \subseteq faults /\ left = {}
        /\ At("restart") /\ Head(plan) = "restart" /\ At(Head(plan))
        /\ UNCHANGED <<dnscrypt, proxy, unbound, resolver, left>>
    BY DEF DnsInv, DnsTypeOK, RestartRefused, At
  <1>2. /\ "astray" \in slips' /\ slips' \subseteq faults' /\ slips' \subseteq Slips
        /\ faults' \subseteq Slips /\ faults \subseteq faults'
    BY <1>1 DEF RestartRefused, Slip, DnsTypeOK, Slips
  <1>3. RunInv' /\ LeftInv'
    BY <1>1, <1>2 DEF RunInv, LeftInv, Undone
  <1>4. /\ PlanInv' /\ ~At("drop")'
        /\ plan' \in Seq({"start", "drop"} \cup {Full[i] : i \in DOMAIN Full})
    <2>1. CASE proxy = Down
      <3>1. plan' = <<"start">> \o Tail(plan)
        BY <2>1 DEF RestartRefused
      <3> QED BY <1>1, <1>2, <3>1, TurnsTo DEF At
    <2>2. CASE proxy # Down
      <3>1. Go
        BY <2>2 DEF RestartRefused, Go
      <3> QED BY <1>1, <1>2, <3>1, GoesOn
    <2> QED BY <2>1, <2>2
  <1>5. DnsTypeOK'
    BY <1>1, <1>2, <1>4 DEF DnsTypeOK
  <1> QED BY <1>2, <1>3, <1>4, <1>5 DEF DnsInv

(* Once a run is at Unbound's stages, without what ChainAnswers excepts,   *)
(* the proxy answers.                                                      *)
LEMMA AnswersByThen ==
    ASSUME DnsInv, plan # << >>, Head(plan) \in PastRestart,
           ~Undone(faults, {"part", "astray", "down"})
    PROVE  Answers
  <1>1. "part" \notin faults /\ "astray" \notin slips /\ "down" \notin slips
    BY DEF DnsInv, Undone
  <1>2. Head(plan) = plan[1] /\ 1 \in DOMAIN plan
    BY DEF DnsInv, PlanInv
  <1>3. Whole(plan)
    BY <1>1, <1>2 DEF DnsInv, PlanInv, PastRestart
  <1> QED BY <1>1, <1>3 DEF DnsInv, RunInv

LEMMA ForwardingKeeps == ASSUME DnsInv, NEW ok \in BOOLEAN, ForwardingOff(ok) PROVE DnsInv'
  <1>1. DnsTypeOK /\ slips \subseteq faults /\ LeftInv /\ RunInv /\ left = {}
    BY DEF DnsInv, DnsTypeOK, ForwardingOff, At
  <1>2. /\ At("forwarding") /\ Go /\ UNCHANGED <<dnscrypt, proxy, resolver, left>>
        /\ unbound' = [unbound EXCEPT !.forwarding = @ /\ ~ok]
    BY DEF ForwardingOff
  <1>3. /\ unbound' \in Settings /\ unbound'.dot = unbound.dot
        /\ unbound'.forwarding => unbound.forwarding
    BY <1>1, <1>2 DEF DnsTypeOK, Settings
  <1>4. /\ slips' \subseteq faults' /\ slips' \subseteq Slips /\ faults' \subseteq Slips
        /\ slips \subseteq slips' /\ faults \subseteq faults'
        /\ unbound'.forwarding => "astray" \in slips'
    BY <1>1 DEF ForwardingOff, Slip, DnsTypeOK, Slips
  <1>5. /\ PlanInv' /\ ~At("drop")'
        /\ plan' \in Seq({"start", "drop"} \cup {Full[i] : i \in DOMAIN Full})
        /\ Whole(plan)' =>
             /\ Whole(plan) /\ Head(plan) = "forwarding"
             /\ plan' # << >> /\ <<"forwarding", Head(plan')>> \in Order
    BY <1>2, <1>4, GoesOn
  <1>6. RunInv'
    <2> SUFFICES ASSUME Whole(plan)', "astray" \notin slips' PROVE RunInv'
      BY DEF RunInv
    <2>1. Head(plan') = "list"
      BY <1>5, Follows
    <2>2. /\ dnscrypt.general /\ dnscrypt.servers
          /\ proxy.runs => proxy.general /\ proxy.servers
          /\ "down" \notin slips => Answers
      BY <1>1, <1>4, <1>5 DEF RunInv, PastServers, PastRestart
    <2> QED BY <1>2, <1>4, <2>1, <2>2
          DEF RunInv, PastServers, PastRestart, PastForwarding, Answers
  <1>7. LeftInv'
    <2>1. ~Undone(faults', {"part", "astray", "down"}) => Answers'
      BY <1>2, <1>4, AnswersByThen DEF Undone, At, PastRestart, Answers
    <2>2. ~Undone(faults', {"unrun", "astray"}) =>
             /\ Closed(unbound)' /\ Closed(resolver)'
             /\ Complete' /\ (proxy'.runs => proxy'.general /\ proxy'.servers)
      BY <1>1, <1>2, <1>3, <1>4 DEF LeftInv, Undone, Closed, Complete
    <2> QED BY <2>1, <2>2 DEF LeftInv
  <1>8. DnsTypeOK'
    BY <1>1, <1>2, <1>3, <1>4, <1>5 DEF DnsTypeOK
  <1> QED BY <1>4, <1>5, <1>6, <1>7, <1>8 DEF DnsInv

LEMMA ListDotsKeeps == ASSUME DnsInv, ListDots PROVE DnsInv'
  <1>1. DnsTypeOK /\ slips \subseteq faults /\ LeftInv /\ RunInv
    BY DEF DnsInv
  <1>2. /\ At("list") /\ Head(plan) = "list" /\ At(Head(plan)) /\ left' = unbound.dot
        /\ UNCHANGED <<dnscrypt, proxy, unbound, resolver, slips, faults>>
    BY DEF ListDots, At
  <1>3. left' \subseteq Dots
    BY <1>1, <1>2 DEF DnsTypeOK, Settings
  <1>4. LeftInv' /\ slips' \subseteq faults'
    BY <1>1, <1>2 DEF LeftInv, Closed, Answers, Complete
  <1>5. ASSUME Whole(plan), "astray" \notin slips
        PROVE  /\ dnscrypt.general /\ dnscrypt.servers /\ ~unbound.forwarding
               /\ proxy.runs => proxy.general /\ proxy.servers
               /\ "down" \notin slips => Answers
    BY <1>1, <1>2, <1>5 DEF RunInv, PastServers, PastRestart, PastForwarding
  <1>6. CASE left' = {}
    <2>1. Go
      BY <1>6 DEF ListDots, Go
    <2>2. /\ PlanInv' /\ ~At("drop")'
          /\ plan' \in Seq({"start", "drop"} \cup {Full[i] : i \in DOMAIN Full})
          /\ Whole(plan)' =>
               Whole(plan) /\ plan' # << >> /\ <<"list", Head(plan')>> \in Order
      BY <1>2, <2>1, GoesOn
    <2>3. Whole(plan)' => Head(plan') = "reconfigure"
      BY <2>2, Follows
    <2>4. RunInv'
      BY <1>2, <1>5, <1>6, <2>2, <2>3
         DEF RunInv, PastServers, PastRestart, PastForwarding, Answers
    <2>5. DnsTypeOK'
      BY <1>1, <1>2, <1>6, <2>2 DEF DnsTypeOK
    <2> QED BY <1>4, <2>2, <2>4, <2>5 DEF DnsInv
  <1>7. CASE left' # {}
    <2>1. plan' = <<"drop">> \o Tail(plan)
      BY <1>7 DEF ListDots
    <2>0. plan # << >> /\ Head(plan) = "list" /\ ("part" \in faults => "part" \in faults')
      BY <1>2 DEF At
    <2>2. /\ PlanInv' /\ plan' # << >> /\ Head(plan') = "drop" /\ (Whole(plan)' => Whole(plan))
          /\ plan' \in Seq({"start", "drop"} \cup {Full[i] : i \in DOMAIN Full})
      BY <2>0, <2>1, TurnsTo
    <2>3. RunInv'
      BY <1>2, <1>5, <2>2 DEF RunInv, PastServers, PastRestart, PastForwarding, Answers
    <2>4. DnsTypeOK'
      BY <1>1, <1>2, <1>3, <1>7, <2>2 DEF DnsTypeOK, At
    <2> QED BY <1>4, <2>2, <2>3, <2>4 DEF DnsInv
  <1> QED BY <1>6, <1>7

LEMMA DropKeeps ==
    ASSUME DnsInv, NEW d \in Dots, NEW ok \in BOOLEAN, DropDot(d, ok) PROVE DnsInv'
  <1>1. DnsTypeOK /\ slips \subseteq faults /\ LeftInv /\ RunInv /\ PlanInv
    BY DEF DnsInv
  <1>2. /\ At("drop") /\ Head(plan) = "drop" /\ plan # << >>
        /\ d \in left /\ left' = left \ {d} /\ UNCHANGED <<dnscrypt, proxy, resolver>>
        /\ unbound' = [unbound EXCEPT !.dot = IF ok THEN @ \ {d} ELSE @]
    BY DEF DropDot, At
  <1>3. /\ unbound' \in Settings /\ unbound'.forwarding = unbound.forwarding
        /\ unbound'.dot = IF ok THEN unbound.dot \ {d} ELSE unbound.dot
    BY <1>1, <1>2 DEF DnsTypeOK, Settings
  <1>4. /\ slips' \subseteq faults' /\ slips' \subseteq Slips /\ faults' \subseteq Slips
        /\ slips \subseteq slips' /\ faults \subseteq faults'
        /\ ~ok => "astray" \in slips'
        /\ slips' \cap {"down"} = slips \cap {"down"}
    BY <1>1 DEF DropDot, Slip, DnsTypeOK, Slips
  <1>5. ASSUME Whole(plan), "astray" \notin slips'
        PROVE  /\ dnscrypt.general /\ dnscrypt.servers /\ ~unbound'.forwarding
               /\ proxy.runs => proxy.general /\ proxy.servers
               /\ "down" \notin slips => Answers
               /\ unbound'.dot \subseteq left'
    <2>1. "astray" \notin slips /\ ok
      BY <1>4, <1>5
    <2>2. /\ dnscrypt.general /\ dnscrypt.servers /\ ~unbound.forwarding
          /\ proxy.runs => proxy.general /\ proxy.servers
          /\ "down" \notin slips => Answers
          /\ unbound.dot \subseteq left
      BY <1>1, <1>2, <1>5, <2>1 DEF RunInv, PastServers, PastRestart, PastForwarding
    <2> QED BY <1>2, <1>3, <2>1, <2>2
  <1>6. LeftInv'
    <2>1. ~Undone(faults', {"part", "astray", "down"}) => Answers'
      BY <1>2, <1>4, AnswersByThen DEF Undone, PastRestart, Answers
    <2>2. ~Undone(faults', {"unrun", "astray"}) =>
             /\ Closed(unbound)' /\ Closed(resolver)'
             /\ Complete' /\ (proxy'.runs => proxy'.general /\ proxy'.servers)
      BY <1>1, <1>2, <1>3, <1>4 DEF LeftInv, Undone, Closed, Complete
    <2> QED BY <2>1, <2>2 DEF LeftInv
  <1>7. CASE left' = {}
    <2>1. Go
      BY <1>7 DEF DropDot, Go
    <2>2. /\ PlanInv' /\ ~At("drop")'
          /\ plan' \in Seq({"start", "drop"} \cup {Full[i] : i \in DOMAIN Full})
          /\ Whole(plan)' =>
               Whole(plan) /\ plan' # << >> /\ <<"drop", Head(plan')>> \in Order
      BY <1>2, <1>4, <2>1, GoesOn
    <2>3. Whole(plan)' => Head(plan') = "reconfigure"
      BY <2>2, Follows
    <2>4. RunInv'
      BY <1>2, <1>4, <1>5, <1>7, <2>2, <2>3
         DEF RunInv, PastServers, PastRestart, PastForwarding, Answers
    <2>5. DnsTypeOK'
      BY <1>1, <1>2, <1>3, <1>4, <1>7, <2>2 DEF DnsTypeOK
    <2> QED BY <1>4, <1>6, <2>2, <2>4, <2>5 DEF DnsInv
  <1>8. CASE left' # {}
    <2>1. plan' = plan
      BY <1>8 DEF DropDot
    <2>2. PlanInv' /\ (Whole(plan)' <=> Whole(plan))
      BY <1>1, <1>4, <2>1, PlanStays
    <2>3. RunInv'
      BY <1>2, <1>4, <1>5, <2>1, <2>2
         DEF RunInv, PastServers, PastRestart, PastForwarding, Answers
    <2>4. DnsTypeOK'
      BY <1>1, <1>2, <1>3, <1>4, <1>8, <2>1 DEF DnsTypeOK, At
    <2> QED BY <1>4, <1>6, <2>2, <2>3, <2>4 DEF DnsInv
  <1> QED BY <1>7, <1>8

LEMMA ReconfigureKeeps == ASSUME DnsInv, NEW ok \in BOOLEAN, Reconfigure(ok) PROVE DnsInv'
  <1>1. DnsTypeOK /\ slips \subseteq faults /\ LeftInv /\ RunInv /\ left = {}
    BY DEF DnsInv, DnsTypeOK, Reconfigure, At
  <1>2. /\ At("reconfigure") /\ Go /\ UNCHANGED <<dnscrypt, proxy, unbound, left>>
        /\ resolver' = IF ok THEN unbound ELSE resolver
    BY DEF Reconfigure
  <1>3. /\ slips' \subseteq faults' /\ slips' \subseteq Slips /\ faults' \subseteq Slips
        /\ slips \subseteq slips' /\ faults \subseteq faults'
        /\ ~ok => "astray" \in slips'
    BY <1>1 DEF Reconfigure, Slip, DnsTypeOK, Slips
  <1>4. /\ PlanInv' /\ ~At("drop")'
        /\ plan' \in Seq({"start", "drop"} \cup {Full[i] : i \in DOMAIN Full})
        /\ Whole(plan)' =>
             /\ Whole(plan) /\ Head(plan) = "reconfigure"
             /\ plan' # << >> /\ <<"reconfigure", Head(plan')>> \in Order
    BY <1>2, <1>3, GoesOn
  <1>5. RunInv'
    <2> SUFFICES ASSUME Whole(plan)', "astray" \notin slips' PROVE RunInv'
      BY DEF RunInv
    <2>1. Head(plan') = "end" /\ Whole(plan) /\ Head(plan) = "reconfigure"
      BY <1>4, Follows
    <2>2. /\ dnscrypt.general /\ dnscrypt.servers /\ Closed(unbound)
          /\ proxy.runs => proxy.general /\ proxy.servers
          /\ "down" \notin slips => Answers
      BY <1>1, <1>3, <2>1 DEF RunInv, PastServers, PastRestart, PastForwarding, Closed
    <2>3. Closed(resolver')
      BY <1>2, <1>3, <2>2
    <2> QED BY <1>2, <1>3, <2>1, <2>2, <2>3
          DEF RunInv, PastServers, PastRestart, PastForwarding, Answers, Closed
  <1>6. LeftInv'
    <2>1. Closed(resolver)' => Closed(resolver) \/ Closed(unbound)
      BY <1>2 DEF Closed
    <2>2. ~Undone(faults, {"unrun", "astray"}) => Closed(resolver)'
      BY <1>1, <1>2 DEF LeftInv, Closed
    <2> QED BY <1>1, <1>2, <1>3, <2>1, <2>2 DEF LeftInv, Undone, Complete, Answers, Closed
  <1>7. DnsTypeOK'
    BY <1>1, <1>2, <1>3, <1>4 DEF DnsTypeOK
  <1> QED BY <1>3, <1>4, <1>5, <1>6, <1>7 DEF DnsInv

LEMMA EndKeeps == ASSUME DnsInv, DnsEnd PROVE DnsInv'
  <1>1. /\ DnsTypeOK /\ RunInv /\ PlanInv /\ left = {}
        /\ plan # << >> /\ Head(plan) = "end" /\ plan' = Tail(plan)
        /\ faults' = slips /\ UNCHANGED <<dnscrypt, proxy, unbound, resolver, left, slips>>
    BY DEF DnsInv, DnsTypeOK, DnsEnd, At, Go
  <1>2. plan' = << >>
    <2> SUFFICES ASSUME Tail(plan) # << >> PROVE FALSE
      BY <1>1
    <2>1. <<"end", Head(Tail(plan))>> \in Order
      BY <1>1, TailOrdered DEF PlanInv
    <2> QED BY <2>1 DEF Order
  <1>3. PlanInv' /\ ~Whole(plan)'
    BY <1>2, PlanEnds
  <1>4. LeftInv'
    <2>1. Whole(plan)
      BY <1>1 DEF PlanInv, At
    <2>2. "astray" \notin slips =>
             /\ Closed(unbound) /\ Closed(resolver) /\ Complete
             /\ proxy.runs => proxy.general /\ proxy.servers
             /\ "down" \notin slips => Answers
      BY <1>1, <2>1 DEF RunInv, PastServers, PastRestart, PastForwarding, Closed, Complete
    <2> QED BY <1>1, <2>2 DEF LeftInv, Undone, Closed, Complete, Answers
  <1>5. DnsTypeOK'
    BY <1>1, <1>2 DEF DnsTypeOK, At
  <1> QED BY <1>1, <1>3, <1>4, <1>5 DEF DnsInv, RunInv

LEMMA DnsCutKeeps == ASSUME DnsInv, DnsCut PROVE DnsInv'
  <1>1. /\ DnsTypeOK /\ LeftInv /\ plan' = << >> /\ left' = {}
        /\ UNCHANGED <<dnscrypt, proxy, unbound, resolver>>
    BY DEF DnsInv, DnsCut
  <1>2. /\ slips' \subseteq faults' /\ slips' \subseteq Slips /\ faults' \subseteq Slips
        /\ faults \subseteq faults'
    BY DEF DnsInv, DnsTypeOK, DnsCut, Slip, Slips
  <1>3. PlanInv' /\ ~Whole(plan)'
    BY <1>1, PlanEnds
  <1>4. LeftInv'
    BY <1>1, <1>2 DEF LeftInv, Undone, Closed, Complete, Answers
  <1>5. DnsTypeOK'
    BY <1>1, <1>2 DEF DnsTypeOK, At
  <1> QED BY <1>2, <1>3, <1>4, <1>5 DEF DnsInv, RunInv

(* Steps beside a run, which leave its plan alone.                         *)
LEMMA ForwardersKeep == ASSUME DnsInv, AddForwarders PROVE DnsInv'
  <1>1. /\ DnsTypeOK /\ LeftInv /\ RunInv /\ PlanInv /\ slips \subseteq faults
        /\ unbound' = [unbound EXCEPT !.catchall = TRUE] /\ resolver' = unbound'
        /\ UNCHANGED <<dnscrypt, proxy, plan, left, slips, faults>>
    BY DEF DnsInv, AddForwarders
  <1>2. /\ unbound' \in Settings /\ unbound'.dot = unbound.dot
        /\ unbound'.forwarding = unbound.forwarding
    BY <1>1 DEF DnsTypeOK, Settings
  <1>3. PlanInv' /\ (Whole(plan)' <=> Whole(plan))
    BY <1>1, PlanStays
  <1>4. /\ Closed(unbound') <=> Closed(unbound)
        /\ Closed(resolver') <=> Closed(unbound)
    BY <1>1, <1>2 DEF Closed
  <1>5. LeftInv'
    BY <1>1, <1>4 DEF LeftInv, Undone, Complete, Answers
  <1>6. RunInv'
    <2> SUFFICES ASSUME Whole(plan)', "astray" \notin slips' PROVE RunInv'
      BY DEF RunInv
    <2>1. /\ Head(plan) # "general" => dnscrypt.general
          /\ Head(plan) \in PastServers => dnscrypt.servers
          /\ Head(plan) \in PastRestart /\ proxy.runs => proxy.general /\ proxy.servers
          /\ Head(plan) \in PastRestart /\ "down" \notin slips => Answers
          /\ Head(plan) \in PastForwarding => ~unbound.forwarding
          /\ Head(plan) = "drop" => unbound.dot \subseteq left
          /\ Head(plan) \in {"reconfigure", "end"} => unbound.dot = {}
      BY <1>1, <1>3 DEF RunInv
    <2>2. Head(plan) = "end" => Closed(resolver')
      BY <1>4, <2>1 DEF PastForwarding, Closed
    <2> QED BY <1>1, <1>2, <2>1, <2>2 DEF RunInv, Answers, Closed
  <1>7. DnsTypeOK'
    BY <1>1, <1>2 DEF DnsTypeOK, At
  <1> QED BY <1>1, <1>3, <1>5, <1>6, <1>7 DEF DnsInv

LEMMA EditKeeps == ASSUME DnsInv, EditByHand PROVE DnsInv'
  <1>1. /\ DnsTypeOK /\ PlanInv /\ resolver' = unbound'
        /\ UNCHANGED <<dnscrypt, proxy, plan, left>>
    BY DEF DnsInv, EditByHand
  <1>2. unbound' \in Settings
    <2>1. ASSUME NEW d \in Dots
          PROVE  [unbound EXCEPT !.dot = @ \cup {d}] \in Settings
      BY <1>1 DEF DnsTypeOK, Settings
    <2>2. [unbound EXCEPT !.forwarding = TRUE] \in Settings
      BY <1>1 DEF DnsTypeOK, Settings
    <2> QED BY <2>1, <2>2 DEF EditByHand
  <1>3. /\ slips' \subseteq faults' /\ slips' \subseteq Slips /\ faults' \subseteq Slips
        /\ faults \subseteq faults' /\ "astray" \in slips'
    BY DEF DnsInv, DnsTypeOK, EditByHand, Slip, Slips
  <1>4. PlanInv'
    BY <1>1, <1>3, PlanStays
  <1>5. RunInv' /\ LeftInv'
    BY <1>3 DEF RunInv, LeftInv, Undone
  <1>6. DnsTypeOK'
    BY <1>1, <1>2, <1>3 DEF DnsTypeOK, At
  <1> QED BY <1>3, <1>4, <1>5, <1>6 DEF DnsInv

LEMMA CrashKeeps == ASSUME DnsInv, ProxyCrash PROVE DnsInv'
  <1>1. /\ DnsTypeOK /\ PlanInv /\ RunInv /\ LeftInv /\ slips \subseteq faults
        /\ proxy' = Down /\ UNCHANGED <<dnscrypt, unbound, resolver, plan, left>>
    BY DEF DnsInv, ProxyCrash
  <1>2. /\ slips' \subseteq faults' /\ slips' \subseteq Slips /\ faults' \subseteq Slips
        /\ faults \subseteq faults' /\ slips \subseteq slips'
        /\ "down" \in slips' /\ "down" \in faults'
    BY DEF DnsInv, DnsTypeOK, ProxyCrash, Slip, Slips
  <1>3. PlanInv' /\ (Whole(plan)' <=> Whole(plan))
    BY <1>1, <1>2, PlanStays
  <1>4. proxy' \in [general : BOOLEAN, servers : BOOLEAN, runs : BOOLEAN] /\ ~proxy'.runs
    BY <1>1, StartedProxy DEF DnsTypeOK
  <1>5. RunInv'
    BY <1>1, <1>2, <1>3, <1>4 DEF RunInv, Closed
  <1>6. LeftInv'
    BY <1>1, <1>2, <1>4 DEF LeftInv, Undone, Complete, Closed
  <1>7. DnsTypeOK'
    BY <1>1, <1>2, <1>4 DEF DnsTypeOK, At
  <1> QED BY <1>2, <1>3, <1>5, <1>6, <1>7 DEF DnsInv

(* The lists of stages a run may be asked for.                             *)
LEMMA AskedFor ==
    ASSUME NEW p \in Parts \cup {Full}
    PROVE  /\ p \in Seq(Stages) /\ Ordered(p) /\ p # << >>
           /\ Head(p) # "drop" /\ (Head(p) = "end" => p = Full)
           /\ Whole(p) => p = Full
           /\ Whole(Full) /\ Head(Full) = "general"
           /\ p = <<"general", "servers", "restart">> =>
                 \A i \in DOMAIN p : p[i] \in {"general", "servers", "restart", "start"}
  <1>1. CASE p = Full
    BY <1>1 DEF Full, Ordered, Order, Stages, Whole
  <1>2. CASE p = <<"general", "servers">>
    BY <1>2 DEF Full, Ordered, Order, Stages, Whole
  <1>3. ASSUME NEW x \in {"restart", "forwarding", "list", "reconfigure"}, p = <<x>>
        PROVE  /\ p \in Seq(Stages) /\ Ordered(p) /\ p # << >> /\ Head(p) = x /\ ~Whole(p)
               /\ p # <<"general", "servers", "restart">>
    <2>1. Len(p) = 1 /\ p[1] = x /\ x \in Stages /\ x # "end"
      BY <1>3 DEF Stages
    <2>2. p \in Seq(Stages) /\ p # << >> /\ Head(p) = x
      BY <1>3, <2>1
    <2>3. Len(<<"general", "servers", "restart">>) = 3
      OBVIOUS
    <2> QED BY <2>1, <2>2, <2>3 DEF Ordered, Whole
  <1>6. Whole(Full) /\ Head(Full) = "general"
    BY DEF Full, Whole
  <1>4. CASE p = <<"general", "servers", "restart">>
    BY <1>4 DEF Full, Ordered, Order, Stages, Whole
  <1>5. CASE p = <<"forwarding", "list", "reconfigure">>
    BY <1>5 DEF Full, Ordered, Order, Stages, Whole
  <1> QED BY <1>1, <1>2, <1>3, <1>4, <1>5, <1>6 DEF Parts

LEMMA DnsBeginKeeps ==
    ASSUME DnsInv, NEW stages \in Parts \cup {Full}, DnsBegin(stages) PROVE DnsInv'
  <1>1. /\ DnsTypeOK /\ LeftInv /\ left = {} /\ plan' = stages /\ slips' = {}
        /\ UNCHANGED <<dnscrypt, proxy, unbound, resolver, left>>
    BY DEF DnsInv, DnsTypeOK, DnsBegin, At
  <1>2. /\ stages \in Seq(Stages) /\ Ordered(stages) /\ stages # << >>
        /\ Head(stages) # "drop" /\ (Head(stages) = "end" => stages = Full)
        /\ Whole(stages) => stages = Full
        /\ Whole(Full) /\ Head(Full) = "general"
        /\ stages = <<"general", "servers", "restart">> =>
              \A i \in DOMAIN stages : stages[i] \in {"general", "servers", "restart", "start"}
    BY AskedFor
  <1>3. /\ faults' \subseteq Slips /\ faults \subseteq faults'
        /\ "part" \notin faults' => stages \in {Full, <<"general", "servers", "restart">>}
    BY <1>1 DEF DnsBegin, DnsTypeOK, Slips
  <1>4. PlanInv'
    BY <1>1, <1>2, <1>3 DEF PlanInv, At
  <1>5. RunInv'
    <2>1. Whole(plan)' => Head(plan') = "general"
      BY <1>1, <1>2
    <2> QED BY <2>1 DEF RunInv, PastServers, PastRestart, PastForwarding
  <1>6. LeftInv'
    BY <1>1, <1>3 DEF LeftInv, Undone, Closed, Complete, Answers
  <1>7. DnsTypeOK'
    BY <1>1, <1>2, <1>3, StagesNamed DEF DnsTypeOK, At
  <1> QED BY <1>1, <1>4, <1>5, <1>6, <1>7 DEF DnsInv

LEMMA DnsInitKeeps == DnsInit => DnsInv
  <1> SUFFICES ASSUME DnsInit PROVE DnsInv
    OBVIOUS
  <1>1. dnscrypt \in [general : BOOLEAN, servers : BOOLEAN]
    BY DEF DnsInit
  <1>2. proxy \in [general : BOOLEAN, servers : BOOLEAN, runs : BOOLEAN]
    BY <1>1, StartedProxy DEF DnsInit
  <1>3. /\ unbound \in Settings /\ unbound.dot = Dots /\ resolver = unbound
        /\ plan = << >> /\ left = {} /\ slips = {} /\ faults = {"unrun"}
    BY DEF DnsInit
  <1>4. DnsTypeOK
    BY <1>1, <1>2, <1>3 DEF DnsTypeOK, At, Slips
  <1>5. PlanInv /\ RunInv
    BY <1>3 DEF PlanInv, RunInv, Ordered, At, Whole
  <1>6. LeftInv
    BY <1>3 DEF LeftInv, Undone, Closed
  <1> QED BY <1>3, <1>4, <1>5, <1>6 DEF DnsInv

LEMMA DnsStepKeeps == ASSUME DnsInv, [DnsNext]_dns PROVE DnsInv'
  <1>1. ASSUME NEW stages \in Parts \cup {Full}, DnsBegin(stages) PROVE DnsInv'
    BY <1>1, DnsBeginKeeps
  <1>2. ASSUME NEW ok \in BOOLEAN, SetGeneral(ok) PROVE DnsInv'
    BY <1>2, GeneralKeeps
  <1>3. ASSUME NEW ok \in BOOLEAN, SetServers(ok) PROVE DnsInv'
    BY <1>3, ServersKeeps
  <1>4. ASSUME NEW ok \in BOOLEAN, Restart(ok) PROVE DnsInv'
    BY <1>4, RestartKeeps
  <1>5. ASSUME NEW ok \in BOOLEAN, Start(ok) PROVE DnsInv'
    BY <1>5, StartKeeps
  <1>6. ASSUME NEW ok \in BOOLEAN, ForwardingOff(ok) PROVE DnsInv'
    BY <1>6, ForwardingKeeps
  <1>7. ASSUME NEW ok \in BOOLEAN, Reconfigure(ok) PROVE DnsInv'
    BY <1>7, ReconfigureKeeps
  <1>8. ASSUME NEW ok \in BOOLEAN, NEW d \in Dots, DropDot(d, ok) PROVE DnsInv'
    BY <1>8, DropKeeps
  <1>9. CASE RestartRefused \/ ListDots \/ DnsEnd \/ DnsCut
    BY <1>9, RefusedKeeps, ListDotsKeeps, EndKeeps, DnsCutKeeps
  <1>10. CASE AddForwarders \/ EditByHand \/ ProxyCrash
    BY <1>10, ForwardersKeep, EditKeeps, CrashKeeps
  <1>11. CASE UNCHANGED dns
    <2>1. PlanInv' /\ (Whole(plan)' <=> Whole(plan))
      BY <1>11, PlanStays DEF DnsInv, dns
    <2>2. RunInv' /\ LeftInv'
      BY <1>11, <2>1
         DEF DnsInv, RunInv, LeftInv, dns, Closed, Complete, Answers
    <2>3. DnsTypeOK' /\ slips' \subseteq faults'
      BY <1>11 DEF DnsInv, DnsTypeOK, At, dns
    <2> QED BY <2>1, <2>2, <2>3 DEF DnsInv
  <1> QED BY <1>1, <1>2, <1>3, <1>4, <1>5, <1>6, <1>7, <1>8, <1>9, <1>10, <1>11 DEF DnsNext

(* The settings, the proxy and the stages of a run keep to their domains;  *)
(* entries are left to switch off exactly while a run is at that stage.    *)
THEOREM DnsTyped == DnsSpec => []DnsTypeOK
  <1>1. DnsInv /\ [DnsNext]_dns => DnsInv'
    BY DnsStepKeeps
  <1>2. DnsInv => DnsTypeOK
    BY DEF DnsInv
  <1> QED BY <1>1, <1>2, DnsInitKeeps, PTL DEF DnsSpec

LEMMA FullByInv == DnsInv => FullRunChains
  <1> SUFFICES ASSUME DnsInv, faults \subseteq {"part", "down", "cut"}
               PROVE  Route(resolver) \in {{"chain"}, {"roots"}}
    BY DEF FullRunChains
  <1>1. Closed(resolver)
    BY DEF DnsInv, LeftInv, Undone
  <1> QED BY <1>1 DEF Closed, Route

(* A full run that came to its end has closed the old ways out, however    *)
(* often it is run again, run in part or cut off: until a post is refused  *)
(* or somebody opens one by hand.                                          *)
THEOREM ChainStays == DnsSpec => []FullRunChains
  <1>1. DnsInv /\ [DnsNext]_dns => DnsInv'
    BY DnsStepKeeps
  <1> QED BY <1>1, FullByInv, DnsInitKeeps, PTL DEF DnsSpec

LEMMA AnswersByInv == ASSUME Dots # {} PROVE DnsInv => ChainAnswers
  <1> SUFFICES ASSUME DnsInv, faults \subseteq {"unrun", "cut"}, Route(resolver) = {"chain"}
               PROVE  Answers
    BY DEF ChainAnswers
  <1>1. "chain" \in Route(resolver) /\ "wan" \notin Route(resolver) /\ "dot" \notin Route(resolver)
    OBVIOUS
  <1>2. Closed(resolver)
    <2>1. ~resolver.forwarding
      BY <1>1 DEF Route
    <2>2. resolver.dot = {}
      <3> SUFFICES ASSUME NEW d \in resolver.dot PROVE FALSE
        OBVIOUS
      <3> QED BY <1>1, <2>1 DEF Route
    <2> QED BY <2>1, <2>2 DEF Closed
  <1> QED BY <1>2 DEF DnsInv, LeftInv, Undone

(* Unbound does not depend on a proxy that does not answer, wherever a run *)
(* is cut off: on a firewall that has old ways out, and as long as no post *)
(* is refused, the proxy comes up and --only does not begin with Unbound.  *)
THEOREM ProxyFirst == ASSUME Dots # {} PROVE DnsSpec => []ChainAnswers
  <1>1. DnsInv /\ [DnsNext]_dns => DnsInv'
    BY DnsStepKeeps
  <1> QED BY <1>1, AnswersByInv, DnsInitKeeps, PTL DEF DnsSpec

------------------------------------------------------------------------------
(* scripts/fw_verify_health.py and scripts/fw_validate.py, on a firewall   *)
(* that goes on changing meanwhile, for every set of interfaces, daemons,  *)
(* VLANs and ways to call them.                                            *)

(* The parts a script has looked at before it comes to a stage.            *)
Seen(at) ==
    IF at = "gateways" THEN {"interfaces", "wan1", "wan2"}
    ELSE IF at = "services" THEN {"interfaces", "wan1", "wan2", "gateways"}
    ELSE IF at = "ndp" THEN {"arp"}
    ELSE IF at = "radvd" THEN {"arp", "ndp"}
    ELSE IF at = "entries" THEN {"arp", "ndp", "radvd"} ELSE {}
HealthStages == {"interfaces", "gateways", "services"}
CatalogStages == {"arp", "ndp", "radvd", "entries"}

GateShape ==
    /\ gate = [at |-> gate.at, flags |-> gate.flags, failed |-> gate.failed]
    /\ gate.at \in HealthStages => gate.flags.kind = "health"
    /\ gate.at \in CatalogStages => gate.flags.kind = "catalog"
(* What a script has collected is what was so since it began.              *)
GateTells ==
    Asking =>
        /\ Pass(net, gate.flags) \subseteq mayPass /\ Fail(net, gate.flags) \subseteq mayFail
        /\ gate.failed = {} => Seen(gate.at) \cap Asked(gate.flags) \subseteq mayPass
        /\ gate.failed # {} /\ ~gate.flags.json => broken \/ mayFail # {}
GateInv == GateTypeOK /\ GateShape /\ GateTells /\ VerdictIsHonest

(* The DNS chain's subject calls the health gate in one way.               *)
PlainInv == about = "dns" /\ Asking => gate.flags = Plain

(* What makes each part good, and when the checks cannot tell.             *)
LEMMA EachPart ==
    ASSUME NEW n, NEW f
    PROVE  /\ GoodIs("interfaces", n, f) <=> n.down = {}
           /\ GoodIs("wan1", n, f) <=> n.wan1 \in {"public", "public172"}
           /\ GoodIs("wan2", n, f) <=> n.wan2 = "up" /\ n.v4 = Env /\ n.v6 = Env
           /\ GoodIs("gateways", n, f) <=> n.gateways = "up"
           /\ GoodIs("services", n, f) <=>
                 \A d \in Daemons : (d = Kea /\ ~f.kea) \/ TRUE \in n.services[d]
           /\ GoodIs("proxy", n, f) <=> proxy.runs
           /\ GoodIs("arp", n, f) <=> Probes4 \subseteq n.arp
           /\ GoodIs("ndp", n, f) <=> Probes6 \subseteq n.ndp
           /\ GoodIs("radvd", n, f) <=> n.radvd
           /\ GoodIs("entries", n, f) <=> Slots \subseteq n.slots
  BY DEF GoodIs

(* The checks of a part fail none exactly where the part passes, and fail  *)
(* one only where it may be bad.                                           *)
LEMMA InterfacesTell ==
    ASSUME NEW n \in NetSet, NEW f \in FlagSet, f.kind = "health"
    PROVE  /\ InterfaceFails(n, f) = {} =>
                 {"interfaces", "wan1", "wan2"} \cap Asked(f) \subseteq Pass(n, f)
           /\ InterfaceFails(n, f) # {} => Fail(n, f) # {}
  <1>1. /\ n.wan1 \in {"down", "bare", "private", "public", "public172"}
        /\ n.wan2 \in {"down", "up"} /\ n.v4 \in {"prod", "test", "suffix", "none"}
        /\ n.v6 \in {"prod", "test", "longer", "suffix", "none"}
    BY DEF NetSet
  <1>2. /\ "interfaces" \in Asked(f)
        /\ "wan1" \in Asked(f) <=> f.proximus
        /\ "wan2" \in Asked(f) <=> f.wan2
    BY DEF Asked, FlagSet
  <1>3. V4Passes(n, f) /\ V6Passes(n, f) =>
           \/ n.v4 = Env /\ n.v6 = Env
           \/ Untold("wan2", n, f)
    BY <1>1, GatesFacts DEF V4Passes, V6Passes, Untold
  <1>4. ~V4Passes(n, f) \/ ~V6Passes(n, f) =>
           \/ n.v4 # Env \/ n.v6 # Env
           \/ Untold("wan2", n, f)
    BY <1>1, GatesFacts DEF V4Passes, V6Passes, Untold
  <1>5. ASSUME InterfaceFails(n, f) = {}
        PROVE  {"interfaces", "wan1", "wan2"} \cap Asked(f) \subseteq Pass(n, f)
    <2>1. /\ n.down = {}
          /\ f.proximus => n.wan1 = "public"
          /\ f.wan2 => n.wan2 # "down" /\ V4Passes(n, f) /\ V6Passes(n, f)
      <3>1. n.down = {}
        BY <1>5 DEF InterfaceFails
      <3>2. f.proximus => n.wan1 = "public"
        <4>1. f.proximus /\ n.wan1 # "public" => "wan1 public" \in InterfaceFails(n, f)
          BY DEF InterfaceFails
        <4> QED BY <1>5, <4>1
      <3>3. ASSUME f.wan2 PROVE n.wan2 # "down" /\ V4Passes(n, f) /\ V6Passes(n, f)
        <4>1. /\ n.wan2 = "down" => "wan2 up" \in InterfaceFails(n, f)
              /\ ~V4Passes(n, f) => "wan2 v4" \in InterfaceFails(n, f)
              /\ ~V6Passes(n, f) => "wan2 v6" \in InterfaceFails(n, f)
          BY <3>3 DEF InterfaceFails
        <4> QED BY <1>5, <4>1
      <3> QED BY <3>1, <3>2, <3>3
    <2>2. "interfaces" \in Pass(n, f)
      BY <1>2, <2>1, EachPart DEF Pass
    <2>3. f.proximus => "wan1" \in Pass(n, f)
      BY <1>2, <2>1, EachPart DEF Pass
    <2>4. f.wan2 => "wan2" \in Pass(n, f)
      BY <1>1, <1>2, <1>3, <2>1, EachPart DEF Pass
    <2> QED BY <1>2, <2>2, <2>3, <2>4
  <1>6. ASSUME NEW x \in InterfaceFails(n, f) PROVE Fail(n, f) # {}
    <2>1. CASE n.down # {}
      BY <1>2, <2>1, EachPart DEF Fail
    <2>2. CASE f.proximus /\ n.wan1 # "public"
      <3>1. ~GoodIs("wan1", n, f) \/ Untold("wan1", n, f)
        BY <1>1, <2>2, EachPart DEF Untold
      <3> QED BY <1>2, <2>2, <3>1 DEF Fail
    <2>3. CASE f.wan2 /\ (n.wan2 = "down" \/ ~V4Passes(n, f) \/ ~V6Passes(n, f))
      <3>1. ~GoodIs("wan2", n, f) \/ Untold("wan2", n, f)
        BY <1>4, <2>3, EachPart
      <3> QED BY <1>2, <2>3, <3>1 DEF Fail
    <2>4. \/ n.down # {}
          \/ f.proximus /\ n.wan1 # "public"
          \/ f.wan2 /\ (n.wan2 = "down" \/ ~V4Passes(n, f) \/ ~V6Passes(n, f))
      BY <1>1, <1>6 DEF InterfaceFails
    <2> QED BY <2>1, <2>2, <2>3, <2>4
  <1> QED BY <1>5, <1>6

LEMMA GatewaysTell ==
    ASSUME NEW n \in NetSet, NEW f \in FlagSet, f.kind = "health"
    PROVE  /\ GatewayFails(n) = {} => "gateways" \in Pass(n, f)
           /\ GatewayFails(n) # {} => Fail(n, f) # {}
  <1>1. n.gateways \in {"up", "down", "unlisted"} /\ "gateways" \in Asked(f)
    BY DEF NetSet, Asked
  <1>2. GatewayFails(n) = {} <=> n.gateways # "down"
    BY DEF GatewayFails
  <1>3. n.gateways # "down" => "gateways" \in Pass(n, f)
    BY <1>1, EachPart DEF Pass, Untold
  <1>4. n.gateways = "down" => "gateways" \in Fail(n, f)
    BY <1>1, EachPart DEF Fail
  <1> QED BY <1>2, <1>3, <1>4

LEMMA ServicesTell ==
    ASSUME NEW n \in NetSet, NEW f \in FlagSet, f.kind = "health"
    PROVE  /\ ServiceFails(n, f) = {} => {"services", "proxy"} \subseteq Pass(n, f) /\ proxy.runs
           /\ ServiceFails(n, f) # {} => Fail(n, f) # {}
  <1>1. {"services", "proxy"} \subseteq Asked(f)
    BY DEF Asked
  <1>2. ASSUME ServiceFails(n, f) = {}
        PROVE  {"services", "proxy"} \subseteq Pass(n, f) /\ proxy.runs
    <2>1. Required(f) \subseteq Running(n) /\ "dnscrypt-proxy" \in Running(n)
      BY <1>2 DEF ServiceFails
    <2>2. proxy.runs
      BY <2>1, GatesFacts DEF Running
    <2>3. ASSUME NEW d \in Daemons, d # Kea \/ f.kea PROVE TRUE \in n.services[d]
      <3>1. d \in Required(f)
        BY <2>3 DEF Required
      <3>2. d # "dnscrypt-proxy" /\ d \in Running(n)
        BY <2>1, <3>1, GatesFacts
      <3> QED BY <3>2 DEF Running
    <2>4. GoodIs("services", n, f)
      BY <2>3, EachPart
    <2>5. GoodIs("proxy", n, f)
      BY <2>2, EachPart
    <2> QED BY <1>1, <2>2, <2>4, <2>5 DEF Pass
  <1>3. ASSUME NEW x \in ServiceFails(n, f) PROVE Fail(n, f) # {}
    <2>1. CASE x = "dnscrypt-proxy"
      <3>1. ~proxy.runs
        BY <1>3, <2>1 DEF ServiceFails, Running
      <3> QED BY <1>1, <3>1, EachPart DEF Fail
    <2>2. CASE x # "dnscrypt-proxy"
      <3>1. x \in Required(f) /\ x \notin Running(n)
        BY <1>3, <2>2 DEF ServiceFails
      <3>2. x \in Daemons /\ (x # Kea \/ f.kea) /\ TRUE \notin n.services[x]
        BY <3>1 DEF Required, Running
      <3>3. ~GoodIs("services", n, f)
        BY <3>2, EachPart
      <3> QED BY <1>1, <3>3 DEF Fail
    <2> QED BY <2>1, <2>2
  <1> QED BY <1>2, <1>3

LEMMA CatalogTells ==
    ASSUME NEW n \in NetSet, NEW f \in FlagSet, f.kind = "catalog", ~f.json
    PROVE  /\ ArpFails(n) = {} => "arp" \in Pass(n, f)
           /\ ArpFails(n) # {} => Fail(n, f) # {}
           /\ NdpFails(n) = {} => "ndp" \in Pass(n, f)
           /\ NdpFails(n) # {} => Fail(n, f) # {}
           /\ RadvdFails(n) = {} => "radvd" \in Pass(n, f)
           /\ RadvdFails(n) # {} => Fail(n, f) # {}
           /\ EntriesFail(n) = {} => "entries" \in Pass(n, f)
           /\ EntriesFail(n) # {} => Fail(n, f) # {}
  <1>1. {"arp", "ndp", "radvd", "entries"} \subseteq Asked(f)
    BY DEF Asked
  <1>2. ArpFails(n) = {} <=> GoodIs("arp", n, f)
    BY EachPart DEF ArpFails
  <1>3. NdpFails(n) = {} <=> GoodIs("ndp", n, f)
    BY EachPart DEF NdpFails
  <1>4. RadvdFails(n) = {} <=> GoodIs("radvd", n, f)
    BY EachPart DEF RadvdFails
  <1>5. EntriesFail(n) = {} <=> GoodIs("entries", n, f)
    BY EachPart DEF EntriesFail
  <1> QED BY <1>1, <1>2, <1>3, <1>4, <1>5 DEF Pass, Fail

(* A script under way was called in one of the ways there are.             *)
LEMMA CalledAs ==
    ASSUME GateInv
    PROVE  /\ gate.flags \in FlagSet /\ (gate.flags.json => gate.flags.kind = "catalog")
           /\ Uncalled \in FlagSet /\ Uncalled.kind = "catalog"
  <1>1. Uncalled \in FlagSet /\ Uncalled.kind = "catalog"
    BY DEF Uncalled, FlagSet
  <1>2. gate.flags \in Flags \cup {Uncalled}
    BY DEF GateInv, GateTypeOK
  <1> QED BY <1>1, <1>2, GatesFacts

(* What the watch adds while a script goes on: the parts as they are then. *)
LEMMA Watched ==
    ASSUME GateInv, Watch, Asking, Asking', gate'.flags = gate.flags
    PROVE  /\ mayPass \subseteq mayPass' /\ mayFail \subseteq mayFail'
           /\ Pass(net, gate.flags)' \subseteq mayPass' /\ Fail(net, gate.flags)' \subseteq mayFail'
           /\ mayPass' \cup mayFail' \subseteq Asked(gate.flags)
  <1>1. /\ mayPass' = mayPass \cup Pass(net, gate.flags)'
        /\ mayFail' = mayFail \cup Fail(net, gate.flags)'
    BY DEF Watch, Asking
  <1>2. Pass(net, gate.flags)' \subseteq Asked(gate.flags) /\ Fail(net, gate.flags)' \subseteq Asked(gate.flags)
    BY DEF Pass, Fail
  <1> QED BY <1>1, <1>2 DEF GateInv, GateTypeOK

(* The firewall changes, the gates go on.                                  *)
LEMMA ChangesKeep ==
    ASSUME GateInv, Watch, net' \in NetSet, flips' \in 0 .. MaxFlips,
           UNCHANGED <<gate, verdict, broken>>
    PROVE  GateInv'
  <1>1. GateTypeOK /\ GateShape /\ GateTells /\ VerdictIsHonest
    BY DEF GateInv
  <1>2. GateShape'
    BY <1>1 DEF GateShape
  <1>3. CASE Asking
    <2>1. /\ mayPass \subseteq mayPass' /\ mayFail \subseteq mayFail'
          /\ Pass(net, gate.flags)' \subseteq mayPass' /\ Fail(net, gate.flags)' \subseteq mayFail'
          /\ mayPass' \cup mayFail' \subseteq Asked(gate.flags)
      BY <1>3, Watched DEF Asking
    <2>2. verdict = "none"
      BY <1>1, <1>3 DEF GateTypeOK, Asking
    <2>3. GateTypeOK' /\ VerdictIsHonest'
      BY <1>1, <2>1, <2>2 DEF GateTypeOK, VerdictIsHonest
    <2>4. GateTells'
      BY <1>1, <1>3, <2>1 DEF GateTells
    <2> QED BY <1>2, <2>3, <2>4 DEF GateInv
  <1>4. CASE ~Asking
    <2>1. UNCHANGED <<mayPass, mayFail>>
      BY <1>4 DEF Watch, Asking
    <2>2. GateTypeOK' /\ VerdictIsHonest'
      BY <1>1, <2>1 DEF GateTypeOK, VerdictIsHonest
    <2>3. GateTells'
      BY <1>4 DEF GateTells, Asking
    <2> QED BY <1>2, <2>2, <2>3 DEF GateInv
  <1> QED BY <1>3, <1>4

LEMMA BeginAsks == ASSUME GateInv, NEW f \in Flags, Begin(f), Watch PROVE GateInv'
  <1>1. GateTypeOK /\ f \in FlagSet
    BY GatesFacts DEF GateInv
  <1>2. /\ gate'.at = (IF f.kind = "health" THEN "interfaces" ELSE "arp")
        /\ gate'.flags = f /\ gate'.failed = {}
        /\ gate' = [at |-> gate'.at, flags |-> gate'.flags, failed |-> gate'.failed]
        /\ gate.at = "idle" /\ verdict' = "none" /\ broken' = FALSE /\ UNCHANGED <<net, flips>>
    BY DEF Begin
  <1>3. /\ f.kind \in {"health", "catalog"} /\ gate'.at \in {"interfaces", "arp"}
        /\ gate'.at = "interfaces" <=> f.kind = "health"
    BY <1>1, <1>2 DEF FlagSet
  <1>4. /\ mayPass' = Pass(net, gate.flags)'
        /\ mayFail' = Fail(net, gate.flags)'
    BY <1>2, <1>3 DEF Watch
  <1>5. mayPass' \cup mayFail' \subseteq Asked(gate'.flags)
    BY <1>4 DEF Pass, Fail
  <1>6. GateTypeOK'
    BY <1>1, <1>2, <1>3, <1>5 DEF GateTypeOK
  <1>7. GateShape'
    BY <1>2, <1>3 DEF GateShape, HealthStages, CatalogStages
  <1>8. GateTells'
    <2>1. Seen(gate'.at) = {}
      BY <1>3 DEF Seen
    <2> QED BY <1>2, <1>4, <2>1 DEF GateTells
  <1> QED BY <1>2, <1>6, <1>7, <1>8 DEF GateInv, VerdictIsHonest

(* A script that reads on, or ends with a verdict: enough that its checks  *)
(* of this stage tell.                                                     *)
LEMMA ReadKeeps ==
    ASSUME GateInv, NEW at, NEW next, NEW fails, Read(at, next, fails), Watch,
           <<at, next>> \in {<<"interfaces", "gateways">>, <<"gateways", "services">>,
                             <<"arp", "ndp">>, <<"ndp", "radvd">>, <<"radvd", "entries">>},
           fails = {} => (Seen(next) \ Seen(at)) \cap Asked(gate.flags) \subseteq Pass(net, gate.flags),
           fails # {} /\ ~gate.flags.json => Fail(net, gate.flags) # {}
    PROVE  GateInv'
  <1>1. GateTypeOK /\ GateShape /\ GateTells
    BY DEF GateInv
  <1>2. /\ gate'.at = next /\ gate'.flags = gate.flags /\ gate'.failed = gate.failed \cup fails
        /\ gate' = [at |-> gate'.at, flags |-> gate'.flags, failed |-> gate'.failed]
        /\ gate.at = at /\ UNCHANGED <<net, flips, verdict, broken>>
    BY <1>1 DEF Read, GateShape
  <1>3. Asking /\ Asking'
    BY <1>2 DEF Asking
  <1>4. /\ mayPass \subseteq mayPass' /\ mayFail \subseteq mayFail'
        /\ Pass(net, gate.flags)' \subseteq mayPass' /\ Fail(net, gate.flags)' \subseteq mayFail'
        /\ mayPass' \cup mayFail' \subseteq Asked(gate.flags)
    BY <1>2, <1>3, Watched
  <1>5. verdict = "none"
    BY <1>1, <1>3 DEF GateTypeOK, Asking
  <1>6. GateTypeOK'
    BY <1>1, <1>2, <1>4, <1>5 DEF GateTypeOK
  <1>7. GateShape'
    BY <1>1, <1>2 DEF GateShape, HealthStages, CatalogStages
  <1>8. GateTells'
    <2>1. gate'.failed = {} => Seen(gate'.at) \cap Asked(gate'.flags) \subseteq mayPass'
      BY <1>1, <1>2, <1>3, <1>4 DEF GateTells
    <2>2. gate'.failed # {} /\ ~gate'.flags.json => broken' \/ mayFail' # {}
      BY <1>1, <1>2, <1>3, <1>4 DEF GateTells
    <2> QED BY <1>2, <1>4, <2>1, <2>2 DEF GateTells
  <1> QED BY <1>2, <1>5, <1>6, <1>7, <1>8 DEF GateInv, VerdictIsHonest

LEMMA ReportKeeps ==
    ASSUME GateInv, NEW at, NEW fails, Report(at, fails), Watch, at \in {"services", "entries"},
           fails = {} /\ ~gate.flags.json =>
               Asked(gate.flags) \ Seen(at) \subseteq Pass(net, gate.flags),
           fails # {} /\ ~gate.flags.json => Fail(net, gate.flags) # {}
    PROVE  GateInv'
  <1>1. GateTypeOK /\ GateShape /\ GateTells /\ gate.flags \in FlagSet
        /\ (gate.flags.json => gate.flags.kind = "catalog")
    BY CalledAs DEF GateInv
  <1>2. /\ gate'.at = "idle" /\ gate'.flags = gate.flags /\ gate'.failed = {}
        /\ gate' = [at |-> gate'.at, flags |-> gate'.flags, failed |-> gate'.failed]
        /\ gate.at = at /\ UNCHANGED <<net, flips, broken>>
    BY <1>1 DEF Report, GateShape
  <1>3. Asking /\ UNCHANGED <<mayPass, mayFail>>
    BY <1>2 DEF Asking, Watch
  <1>4. verdict' = IF gate.failed \cup fails = {} \/ gate.flags.json THEN "exit 0" ELSE "exit 1"
    BY DEF Report
  <1>5. GateTypeOK'
    BY <1>1, <1>2, <1>3, <1>4 DEF GateTypeOK
  <1>6. GateShape' /\ GateTells'
    BY <1>2 DEF GateShape, GateTells, Asking, HealthStages, CatalogStages
  <1>7. VerdictIsHonest'
    <2>1. CASE gate.flags.json
      <3>1. Asked(gate.flags) = {}
        BY <1>1, <2>1 DEF Asked
      <3>2. verdict' = "exit 0" /\ mayPass' = {}
        BY <1>1, <1>3, <1>4, <2>1, <3>1 DEF GateTypeOK
      <3> QED BY <1>2, <3>1, <3>2 DEF VerdictIsHonest
    <2>2. CASE ~gate.flags.json /\ gate.failed \cup fails = {}
      <3>1. Asked(gate.flags) \subseteq mayPass
        BY <1>1, <1>2, <1>3, <2>2 DEF GateTells
      <3>2. mayPass' = Asked(gate'.flags)
        BY <1>1, <1>2, <1>3, <3>1 DEF GateTypeOK
      <3> QED BY <1>4, <2>2, <3>2 DEF VerdictIsHonest
    <2>3. CASE ~gate.flags.json /\ gate.failed \cup fails # {}
      <3>1. broken \/ mayFail # {}
        BY <1>1, <1>3, <2>3 DEF GateTells
      <3> QED BY <1>2, <1>3, <1>4, <2>3, <3>1 DEF VerdictIsHonest
    <2> QED BY <2>1, <2>2, <2>3
  <1> QED BY <1>5, <1>6, <1>7 DEF GateInv

LEMMA ReadFailsKeeps == ASSUME GateInv, ReadFails, Watch PROVE GateInv'
  <1>1. GateTypeOK /\ GateShape /\ GateTells
    BY DEF GateInv
  <1>2. Asking /\ broken' = TRUE /\ UNCHANGED <<net, flips>> /\ verdict = "none"
    BY <1>1 DEF ReadFails, Asking, GateTypeOK
  <1>3. CASE gate.at = "gateways"
    <2>1. /\ gate'.at = "services" /\ gate'.flags = gate.flags
          /\ gate'.failed = gate.failed \cup {"reachable"} /\ verdict' = verdict
          /\ gate' = [at |-> gate'.at, flags |-> gate'.flags, failed |-> gate'.failed]
      BY <1>1, <1>3 DEF ReadFails, GateShape
    <2>2. Asking' /\ gate'.failed # {}
      BY <2>1 DEF Asking
    <2>3. /\ mayPass \subseteq mayPass' /\ mayFail \subseteq mayFail'
          /\ Pass(net, gate.flags)' \subseteq mayPass' /\ Fail(net, gate.flags)' \subseteq mayFail'
          /\ mayPass' \cup mayFail' \subseteq Asked(gate.flags)
      BY <1>2, <2>1, <2>2, Watched
    <2>4. GateTypeOK'
      BY <1>1, <1>2, <2>1, <2>3 DEF GateTypeOK
    <2>5. GateShape' /\ GateTells'
      BY <1>1, <1>2, <1>3, <2>1, <2>2, <2>3 DEF GateShape, GateTells, HealthStages, CatalogStages
    <2> QED BY <1>2, <2>1, <2>4, <2>5 DEF GateInv, VerdictIsHonest
  <1>4. CASE gate.at # "gateways"
    <2>1. /\ gate'.at = "idle" /\ gate'.flags = gate.flags /\ gate'.failed = {}
          /\ gate' = [at |-> gate'.at, flags |-> gate'.flags, failed |-> gate'.failed]
          /\ verdict' = "exit 1"
      BY <1>1, <1>4 DEF ReadFails, GateShape
    <2>2. UNCHANGED <<mayPass, mayFail>>
      BY <2>1 DEF Watch
    <2>3. GateTypeOK'
      BY <1>1, <1>2, <2>1, <2>2 DEF GateTypeOK
    <2>4. GateShape' /\ GateTells'
      BY <2>1 DEF GateShape, GateTells, Asking, HealthStages, CatalogStages
    <2> QED BY <1>2, <2>1, <2>3, <2>4 DEF GateInv, VerdictIsHonest
  <1> QED BY <1>3, <1>4

(* A change of the firewall keeps it a firewall.                           *)
LEMMA FlipTyped == ASSUME GateTypeOK, Flip PROVE net' \in NetSet /\ flips' \in 0 .. MaxFlips
  <1>1. net \in NetSet /\ flips \in 0 .. MaxFlips /\ flips < MaxFlips /\ flips' = flips + 1
    BY DEF GateTypeOK, Flip
  <1>2. ASSUME NEW S \in SUBSET Interfaces PROVE [net EXCEPT !.down = S] \in NetSet
    BY <1>1 DEF NetSet
  <1>3. /\ \A w \in {"down", "bare", "private", "public", "public172"} :
              [net EXCEPT !.wan1 = w] \in NetSet
        /\ \A w \in {"down", "up"} : [net EXCEPT !.wan2 = w] \in NetSet
        /\ \A a \in {"prod", "test", "suffix", "none"} : [net EXCEPT !.v4 = a] \in NetSet
        /\ \A a \in {"prod", "test", "longer", "suffix", "none"} : [net EXCEPT !.v6 = a] \in NetSet
        /\ \A g \in {"up", "down", "unlisted"} : [net EXCEPT !.gateways = g] \in NetSet
    BY <1>1 DEF NetSet
  <1>4. ASSUME NEW d \in Daemons, NEW rows \in SUBSET BOOLEAN
        PROVE  [net EXCEPT !.services[d] = rows] \in NetSet
    <2>1. [net.services EXCEPT ![d] = rows] \in [Daemons -> SUBSET BOOLEAN]
      BY <1>1 DEF NetSet
    <2> QED BY <1>1, <2>1 DEF NetSet
  <1>5. ASSUME NEW S \in SUBSET Vlans
        PROVE  [net EXCEPT !.arp = S] \in NetSet /\ [net EXCEPT !.ndp = S] \in NetSet
    BY <1>1 DEF NetSet
  <1>6. [net EXCEPT !.radvd = ~@] \in NetSet
    BY <1>1 DEF NetSet
  <1>7. ASSUME NEW S \in SUBSET (Slots \cup {"other"}) PROVE [net EXCEPT !.slots = S] \in NetSet
    BY <1>1 DEF NetSet
  <1>8. /\ net.down \subseteq Interfaces /\ net.arp \subseteq Vlans /\ net.ndp \subseteq Vlans
        /\ net.slots \subseteq Slots \cup {"other"}
    BY <1>1 DEF NetSet
  <1>9. ASSUME NEW i \in Interfaces,
               net' = [net EXCEPT !.down = IF i \in @ THEN @ \ {i} ELSE @ \cup {i}]
        PROVE  net' \in NetSet
    <2> DEFINE S == IF i \in net.down THEN net.down \ {i} ELSE net.down \cup {i}
    <2>1. S \in SUBSET Interfaces /\ net' = [net EXCEPT !.down = S]
      BY <1>8, <1>9
    <2> HIDE DEF S
    <2>2. [net EXCEPT !.down = S] \in NetSet
      BY <1>2, <2>1
    <2> QED BY <2>1, <2>2
  <1>10. ASSUME NEW v \in Vlans,
                net' \in {[net EXCEPT !.arp = @ \ {v}], [net EXCEPT !.arp = @ \cup {v}],
                          [net EXCEPT !.ndp = @ \ {v}], [net EXCEPT !.ndp = @ \cup {v}]}
         PROVE  net' \in NetSet
    <2>1. /\ [net EXCEPT !.arp = net.arp \ {v}] \in NetSet
          /\ [net EXCEPT !.arp = net.arp \cup {v}] \in NetSet
          /\ [net EXCEPT !.ndp = net.ndp \ {v}] \in NetSet
          /\ [net EXCEPT !.ndp = net.ndp \cup {v}] \in NetSet
      <3>1. /\ net.arp \ {v} \in SUBSET Vlans /\ net.arp \cup {v} \in SUBSET Vlans
            /\ net.ndp \ {v} \in SUBSET Vlans /\ net.ndp \cup {v} \in SUBSET Vlans
        BY <1>8
      <3> QED BY <1>1, <3>1 DEF NetSet
    <2> QED BY <1>10, <2>1
  <1>11. ASSUME NEW s \in Slots \cup {"other"},
                net' = [net EXCEPT !.slots = IF s \in @ THEN @ \ {s} ELSE @ \cup {s}]
         PROVE  net' \in NetSet
    <2> DEFINE S == IF s \in net.slots THEN net.slots \ {s} ELSE net.slots \cup {s}
    <2>1. S \in SUBSET (Slots \cup {"other"}) /\ net' = [net EXCEPT !.slots = S]
      BY <1>8, <1>11
    <2> HIDE DEF S
    <2>2. [net EXCEPT !.slots = S] \in NetSet
      BY <1>7, <2>1
    <2> QED BY <2>1, <2>2
  <1>12. net' \in NetSet
    <2>1. CASE \E i \in Interfaces :
                  net' = [net EXCEPT !.down = IF i \in @ THEN @ \ {i} ELSE @ \cup {i}]
      BY <1>9, <2>1
    <2>2. CASE \/ \E w \in {"down", "bare", "private", "public", "public172"} :
                     net' = [net EXCEPT !.wan1 = w]
               \/ \E w \in {"down", "up"} : net' = [net EXCEPT !.wan2 = w]
               \/ \E a \in {"prod", "test", "suffix", "none"} : net' = [net EXCEPT !.v4 = a]
               \/ \E a \in {"prod", "test", "longer", "suffix", "none"} : net' = [net EXCEPT !.v6 = a]
               \/ \E g \in {"up", "down", "unlisted"} : net' = [net EXCEPT !.gateways = g]
      BY <1>3, <2>2, Zenon
    <2>3. CASE \E d \in Daemons, rows \in SUBSET BOOLEAN : net' = [net EXCEPT !.services[d] = rows]
      BY <1>4, <2>3, Zenon
    <2>4. CASE \E v \in Vlans :
                  net' \in {[net EXCEPT !.arp = @ \ {v}], [net EXCEPT !.arp = @ \cup {v}],
                            [net EXCEPT !.ndp = @ \ {v}], [net EXCEPT !.ndp = @ \cup {v}]}
      BY <1>10, <2>4
    <2>5. CASE net' = [net EXCEPT !.radvd = ~@]
      BY <1>6, <2>5
    <2>6. CASE \E s \in Slots \cup {"other"} :
                  net' = [net EXCEPT !.slots = IF s \in @ THEN @ \ {s} ELSE @ \cup {s}]
      BY <1>11, <2>6
    <2> QED BY <2>1, <2>2, <2>3, <2>4, <2>5, <2>6, Zenon DEF Flip
  <1>13. flips' \in 0 .. MaxFlips
    BY <1>1, GatesFacts
  <1> QED BY <1>12, <1>13

LEMMA GateKeeps == ASSUME GateInv, GateStep, Watch PROVE GateInv'
  <1>1. /\ GateTypeOK /\ GateShape /\ net \in NetSet
        /\ gate.flags \in FlagSet /\ (gate.flags.json => gate.flags.kind = "catalog")
    BY CalledAs DEF GateInv, GateTypeOK
  <1>2. ASSUME NEW f \in Flags, Begin(f) PROVE GateInv'
    BY <1>2, BeginAsks
  <1>3. CASE ReadInterfaces
    <2>1. gate.flags.kind = "health"
      BY <1>1, <1>3 DEF ReadInterfaces, Read, GateShape, HealthStages
    <2> DEFINE fails == InterfaceFails(net, gate.flags)
    <2>2. /\ fails = {} => (Seen("gateways") \ Seen("interfaces")) \cap Asked(gate.flags)
                              \subseteq Pass(net, gate.flags)
          /\ fails # {} => Fail(net, gate.flags) # {}
      BY <1>1, <2>1, InterfacesTell DEF Seen
    <2>3. Read("interfaces", "gateways", fails)
      BY <1>3 DEF ReadInterfaces
    <2> HIDE DEF fails
    <2> QED BY <2>2, <2>3, ReadKeeps
  <1>4. CASE ReadGateways
    <2>1. gate.flags.kind = "health"
      BY <1>1, <1>4 DEF ReadGateways, Read, GateShape, HealthStages
    <2> DEFINE fails == GatewayFails(net)
    <2>2. /\ fails = {} => (Seen("services") \ Seen("gateways")) \cap Asked(gate.flags)
                              \subseteq Pass(net, gate.flags)
          /\ fails # {} => Fail(net, gate.flags) # {}
      BY <1>1, <2>1, GatewaysTell DEF Seen
    <2>3. Read("gateways", "services", fails)
      BY <1>4 DEF ReadGateways
    <2> HIDE DEF fails
    <2> QED BY <2>2, <2>3, ReadKeeps
  <1>5. CASE ReadServices
    <2>1. gate.flags.kind = "health"
      BY <1>1, <1>5 DEF ReadServices, Report, GateShape, HealthStages
    <2> DEFINE fails == ServiceFails(net, gate.flags)
    <2>2. /\ fails = {} => Asked(gate.flags) \ Seen("services") \subseteq Pass(net, gate.flags)
          /\ fails # {} => Fail(net, gate.flags) # {}
      BY <1>1, <2>1, ServicesTell DEF Seen, Asked
    <2>3. Report("services", fails)
      BY <1>5 DEF ReadServices
    <2> HIDE DEF fails
    <2> QED BY <2>2, <2>3, ReportKeeps
  <1>6. CASE ReadArp
    <2>1. gate.flags.kind = "catalog"
      BY <1>1, <1>6 DEF ReadArp, Read, GateShape, CatalogStages
    <2> DEFINE fails == ArpFails(net)
    <2>2. /\ fails = {} => (Seen("ndp") \ Seen("arp")) \cap Asked(gate.flags)
                              \subseteq Pass(net, gate.flags)
          /\ fails # {} /\ ~gate.flags.json => Fail(net, gate.flags) # {}
      <3>1. CASE gate.flags.json
        BY <2>1, <3>1 DEF Asked
      <3>2. CASE ~gate.flags.json
        BY <1>1, <2>1, <3>2, CatalogTells DEF Seen
      <3> QED BY <3>1, <3>2
    <2>3. Read("arp", "ndp", fails)
      BY <1>6 DEF ReadArp
    <2> HIDE DEF fails
    <2> QED BY <2>2, <2>3, ReadKeeps
  <1>7. CASE ReadNdp
    <2>1. gate.flags.kind = "catalog"
      BY <1>1, <1>7 DEF ReadNdp, Read, GateShape, CatalogStages
    <2> DEFINE fails == NdpFails(net)
    <2>2. /\ fails = {} => (Seen("radvd") \ Seen("ndp")) \cap Asked(gate.flags)
                              \subseteq Pass(net, gate.flags)
          /\ fails # {} /\ ~gate.flags.json => Fail(net, gate.flags) # {}
      <3>1. CASE gate.flags.json
        BY <2>1, <3>1 DEF Asked
      <3>2. CASE ~gate.flags.json
        BY <1>1, <2>1, <3>2, CatalogTells DEF Seen
      <3> QED BY <3>1, <3>2
    <2>3. Read("ndp", "radvd", fails)
      BY <1>7 DEF ReadNdp
    <2> HIDE DEF fails
    <2> QED BY <2>2, <2>3, ReadKeeps
  <1>8. CASE ReadRadvd
    <2>1. gate.flags.kind = "catalog"
      BY <1>1, <1>8 DEF ReadRadvd, Read, GateShape, CatalogStages
    <2> DEFINE fails == RadvdFails(net)
    <2>2. /\ fails = {} => (Seen("entries") \ Seen("radvd")) \cap Asked(gate.flags)
                              \subseteq Pass(net, gate.flags)
          /\ fails # {} /\ ~gate.flags.json => Fail(net, gate.flags) # {}
      <3>1. CASE gate.flags.json
        BY <2>1, <3>1 DEF Asked
      <3>2. CASE ~gate.flags.json
        BY <1>1, <2>1, <3>2, CatalogTells DEF Seen
      <3> QED BY <3>1, <3>2
    <2>3. Read("radvd", "entries", fails)
      BY <1>8 DEF ReadRadvd
    <2> HIDE DEF fails
    <2> QED BY <2>2, <2>3, ReadKeeps
  <1>9. CASE ReadEntries
    <2>1. gate.flags.kind = "catalog"
      BY <1>1, <1>9 DEF ReadEntries, Report, GateShape, CatalogStages
    <2> DEFINE fails == EntriesFail(net)
    <2>2. /\ fails = {} /\ ~gate.flags.json =>
                Asked(gate.flags) \ Seen("entries") \subseteq Pass(net, gate.flags)
          /\ fails # {} /\ ~gate.flags.json => Fail(net, gate.flags) # {}
      BY <1>1, <2>1, CatalogTells DEF Seen, Asked
    <2>3. Report("entries", fails)
      BY <1>9 DEF ReadEntries
    <2> HIDE DEF fails
    <2> QED BY <2>2, <2>3, ReportKeeps
  <1>10. CASE ReadFails
    BY <1>10, ReadFailsKeeps
  <1>11. CASE Flip
    <2>1. net' \in NetSet /\ flips' \in 0 .. MaxFlips /\ UNCHANGED <<gate, verdict, broken>>
      BY <1>1, <1>11, FlipTyped DEF Flip
    <2> QED BY <2>1, ChangesKeep
  <1> QED BY <1>2, <1>3, <1>4, <1>5, <1>6, <1>7, <1>8, <1>9, <1>10, <1>11 DEF GateStep

LEMMA GatesInitKeep == GatesInit => GateInv
  <1> SUFFICES ASSUME GatesInit PROVE GateInv
    OBVIOUS
  <1>1. /\ net = Sound /\ flips = 0 /\ verdict = "none" /\ broken = FALSE
        /\ mayPass = {} /\ mayFail = {}
        /\ gate.at = "idle" /\ gate.flags = Uncalled
        /\ gate = [at |-> gate.at, flags |-> gate.flags, failed |-> gate.failed]
    BY DEF GatesInit
  <1>2. Sound \in NetSet
    <2>1. [d \in Daemons |-> {TRUE}] \in [Daemons -> SUBSET BOOLEAN]
      OBVIOUS
    <2>2. /\ Env \in {"prod", "test", "suffix", "none"}
          /\ Env \in {"prod", "test", "longer", "suffix", "none"}
      BY GatesFacts
    <2> QED BY <2>1, <2>2 DEF Sound, NetSet
  <1>3. GateTypeOK
    <2>1. flips \in 0 .. MaxFlips
      BY <1>1, GatesFacts
    <2>2. mayPass \cup mayFail \subseteq Asked(gate.flags)
      BY <1>1
    <2> QED BY <1>1, <1>2, <2>1, <2>2 DEF GateTypeOK
  <1>4. GateShape /\ GateTells /\ VerdictIsHonest
    BY <1>1 DEF GateShape, GateTells, VerdictIsHonest, Asking, HealthStages, CatalogStages
  <1> QED BY <1>3, <1>4 DEF GateInv

------------------------------------------------------------------------------
(* The three together.                                                     *)
BringUpInv == OobInv /\ DnsInv /\ GateInv /\ PlainInv

LEMMA InitKeeps == Init => BringUpInv
  BY OobInitKeeps, DnsInitKeeps, GatesInitKeep
     DEF Init, BringUpInv, PlainInv, GatesInit, Asking

LEMMA NextKeeps == BringUpInv /\ [Next]_all => BringUpInv'
  <1> SUFFICES ASSUME BringUpInv, [Next]_all PROVE BringUpInv'
    OBVIOUS
  <1>1. OobInv /\ DnsInv /\ GateInv /\ PlainInv
    BY DEF BringUpInv
  <1>2. [OobNext]_oob /\ [DnsNext]_dns
    BY DEF Next, all, Outside, DnsNext
  <1>3. OobInv' /\ DnsInv'
    BY <1>1, <1>2, OobStepKeeps, DnsStepKeeps
  <1>4. ASSUME UNCHANGED <<dns, gates, about>> PROVE GateInv' /\ PlainInv'
    <2>1. UNCHANGED <<net, flips, gate, verdict, broken, mayPass, mayFail, proxy, about>>
      BY <1>4 DEF dns, gates
    <2>2. GateTypeOK' /\ GateShape' /\ VerdictIsHonest' /\ PlainInv'
      BY <1>1, <2>1 DEF GateInv, GateTypeOK, GateShape, VerdictIsHonest, PlainInv, Asking
    <2>3. /\ Pass(net, gate.flags)' = Pass(net, gate.flags)
          /\ Fail(net, gate.flags)' = Fail(net, gate.flags)
      BY <2>1 DEF Pass, Fail, GoodIs, Untold
    <2>4. GateTells'
      BY <1>1, <2>1, <2>3 DEF GateInv, GateTells, Asking
    <2> QED BY <2>2, <2>4 DEF GateInv
  <1>5. ASSUME UNCHANGED <<net, flips, gate, verdict, broken, about>>, Watch
        PROVE  GateInv' /\ PlainInv'
    <2>1. net' \in NetSet /\ flips' \in 0 .. MaxFlips
      BY <1>1, <1>5 DEF GateInv, GateTypeOK
    <2>2. GateInv'
      BY <1>1, <1>5, <2>1, ChangesKeep
    <2> QED BY <1>1, <1>5, <2>2 DEF PlainInv, Asking
  <1>6. ASSUME GateStep, Watch, UNCHANGED about, about = "dns" => gate'.flags = Plain
        PROVE  GateInv' /\ PlainInv'
    BY <1>1, <1>6, GateKeeps DEF PlainInv
  <1>7. GateInv' /\ PlainInv'
    BY <1>4, <1>5, <1>6 DEF Next, all
  <1> QED BY <1>3, <1>7 DEF BringUpInv

(* Every part of the system keeps to its domains, and a script that is     *)
(* under way has no verdict yet.                                           *)
THEOREM BringUpTyped == Spec => []TypeOK
  <1>1. BringUpInv => TypeOK
    BY DEF BringUpInv, OobInv, DnsInv, GateInv, TypeOK
  <1> QED BY <1>1, InitKeeps, NextKeeps, PTL DEF Spec

(* Exit 0 of either gate: each part asked for was good, or one the checks  *)
(* cannot tell, at some time since the script began, however the firewall  *)
(* changes meanwhile; exit 1: one of them was not, or a read was not       *)
(* answered.                                                               *)
THEOREM VerdictsAreHonest == Spec => []VerdictIsHonest
  <1>1. BringUpInv => VerdictIsHonest
    BY DEF BringUpInv, GateInv
  <1> QED BY <1>1, InitKeeps, NextKeeps, PTL DEF Spec

LEMMA GreenByInv ==
    ASSUME BringUpInv, about = "dns", ReadServices, verdict' = "exit 0",
           faults \subseteq {"part", "down", "cut"}
    PROVE  /\ resolver.catchall => Route(resolver) = {"chain"}
           /\ proxy = [general |-> TRUE, servers |-> TRUE, runs |-> TRUE]
  <1>1. DnsTypeOK /\ LeftInv /\ GateTypeOK /\ GateShape /\ PlainInv /\ net \in NetSet
        /\ gate.flags \in FlagSet
    BY CalledAs DEF BringUpInv, DnsInv, GateInv, GateTypeOK
  <1>2. gate.at = "services" /\ gate.flags.kind = "health" /\ gate.flags = Plain
    BY <1>1 DEF ReadServices, Report, GateShape, HealthStages, PlainInv, Asking
  <1>3. ServiceFails(net, gate.flags) = {}
    <2>1. ~gate.flags.json
      <3>1. ~Plain.json
        BY DEF Plain
      <3> QED BY <1>2, <3>1
    <2>2. verdict' = IF gate.failed \cup ServiceFails(net, gate.flags) = {} \/ gate.flags.json
                     THEN "exit 0" ELSE "exit 1"
      BY DEF ReadServices, Report
    <2> QED BY <2>1, <2>2
  <1>4. proxy.runs
    BY <1>1, <1>2, <1>3, ServicesTell
  <1>5. Closed(resolver) /\ proxy.general /\ proxy.servers
    BY <1>1, <1>4 DEF LeftInv, Undone
  <1>6. proxy = [general |-> TRUE, servers |-> TRUE, runs |-> TRUE]
    BY <1>1, <1>4, <1>5 DEF DnsTypeOK
  <1>7. resolver.catchall => Route(resolver) = {"chain"}
    BY <1>5 DEF Closed, Route
  <1> QED BY <1>6, <1>7

(* The DNS chain's script and the health gate together: a green gate after *)
(* a full run whose posts were all taken means that queries leave through  *)
(* a proxy that runs the catalog's settings.                               *)
THEOREM GreenMeansChained == Spec => GreenGateChains
  <1> DEFINE
        G == about = "dns" /\ ReadServices /\ verdict' = "exit 0"
                 /\ faults \subseteq {"part", "down", "cut"} =>
               /\ resolver.catchall => Route(resolver) = {"chain"}
               /\ proxy = [general |-> TRUE, servers |-> TRUE, runs |-> TRUE]
  <1>1. BringUpInv /\ [Next]_all => [G]_all
    BY GreenByInv
  <1>2. Spec => []BringUpInv
    BY InitKeeps, NextKeeps, PTL DEF Spec
  <1>3. Spec => [][G]_all
    BY <1>1, <1>2, PTL DEF Spec
  <1> QED BY <1>3 DEF GreenGateChains

==============================================================================
