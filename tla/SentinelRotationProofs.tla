----------------------- MODULE SentinelRotationProofs ------------------------
(***************************************************************************)
(* Proofs about SentinelRotation, for any number of Sentinels and any      *)
(* number of plays cut off and Sentinels rebooted.                         *)
(***************************************************************************)
EXTENDS SentinelRotation, FiniteSetTheorems, TLAPS

(* The tasks in which the play has a password of its own, and those that   *)
(* go through the files.                                                   *)
FileTasks == Edits \cup {"stop", "start", "back"}
NewTasks == FileTasks \cup {"accept", "store", "use", "drop", "check"}
OldTasks == {"conf", "container", "mint", "accept", "store", "declare"}

(* What a task knows of the play's passwords.                              *)
Passed ==
    /\ pc \in NewTasks => new \in Passwords /\ pw \in Passwords /\ pw # new
    /\ pc \in NewTasks \cup {"mint"} => "rotate" \in flags
    /\ pc \in OldTasks => pw = vault
    /\ pc \in NewTasks \ {"accept", "store"} => vault = new

Typing == TypeOK /\ Passed

LEMMA Fresh ==
    ASSUME Typing, NEW w \in Drawn
    PROVE  /\ w \in Passwords /\ w # pw /\ w # vault /\ w \notin lost
           /\ \A i \in Hosts : /\ w \notin accepts[i] /\ w # req[i]
                               /\ w # file[i].pass /\ w \notin file[i].acl
  BY DEF Drawn, Free, HeldBy

LEMMA TypingInit == Init => Typing
  BY SentinelAssumption DEF Init, Typing, TypeOK, Passed, Tasks, NewTasks, FileTasks,
     OldTasks, Edits, Conf, Rendered

LEMMA LoadTyped ==
    ASSUME Typing, NEW i \in Hosts, Load(i)
    PROVE  /\ up' \in [Hosts -> BOOLEAN] /\ accepts' \in [Hosts -> SUBSET Passwords]
           /\ uses' \in [Hosts -> Passwords] /\ req' \in [Hosts -> Passwords]
           /\ file' \in [Hosts -> Conf]
  BY DEF Typing, TypeOK, Load, Loads, Conf

LEMMA TypingStep == Typing /\ [Next]_vars => Typing'
  <1> SUFFICES ASSUME Typing, [Next]_vars PROVE Typing'
    OBVIOUS
  <1> USE SentinelAssumption
  <1> USE DEF Typing, TypeOK, Passed, Tasks, NewTasks, FileTasks, OldTasks, Edits
  <1>1. ASSUME NEW asked \in SUBSET {"rotate", "reset"}, Begin(asked) PROVE Typing'
    BY <1>1 DEF Begin, At, Turn, sentinels
  <1>2. CASE Secret
    BY <1>2 DEF Secret, At, Goto, sentinels
  <1>3. CASE WriteConf
    BY <1>3 DEF WriteConf, At, Goto, Rendered, Conf
  <1>4. CASE Container
    <2>1. /\ up' \in [Hosts -> BOOLEAN] /\ accepts' \in [Hosts -> SUBSET Passwords]
          /\ uses' \in [Hosts -> Passwords] /\ req' \in [Hosts -> Passwords]
          /\ file' \in [Hosts -> Conf]
      BY <1>4, LoadTyped DEF Container, At, sentinels
    <2> QED  BY <1>4, <2>1 DEF Container, At, Goto
  <1>5. CASE Mint
    <2>1. new' \in Passwords /\ new' # pw
      BY <1>5, Fresh DEF Mint
    <2> QED  BY <1>5, <2>1 DEF Mint, At, Goto, sentinels
  <1>6. CASE Accept
    BY <1>6 DEF Accept, At, Goto
  <1>7. CASE Store
    BY <1>7 DEF Store, At, Goto, sentinels
  <1>8. CASE Use
    BY <1>8 DEF Use, At, Goto
  <1>9. CASE Stop
    BY <1>9 DEF Stop, At, Goto
  <1>10. CASE EditPass \/ EditPeer \/ DropLine
    BY <1>10 DEF EditPass, EditPeer, DropLine, Edit, At, Goto, Conf
  <1>11. CASE Start
    <2>1. /\ up' \in [Hosts -> BOOLEAN] /\ accepts' \in [Hosts -> SUBSET Passwords]
          /\ uses' \in [Hosts -> Passwords] /\ req' \in [Hosts -> Passwords]
          /\ file' \in [Hosts -> Conf]
      BY <1>11, LoadTyped DEF Start, At, sentinels
    <2> QED  BY <1>11, <2>1 DEF Start, At, Goto
  <1>12. CASE Back
    BY <1>12 DEF Back, At, Goto, sentinels
  <1>13. CASE Drop
    BY <1>13 DEF Drop, At, Goto, Conf
  <1>14. CASE Check
    BY <1>14 DEF Check, At, Goto, sentinels
  <1>15. CASE Declare
    <2>1. file' \in [Hosts -> Conf]
      BY <1>15 DEF Declare, At, Recorded, Conf
    <2>2. CASE todo = {}
      BY <1>15, <2>1, <2>2 DEF Declare, At, Forget
    <2>3. CASE todo # {}
      BY <1>15, <2>1, <2>3 DEF Declare, At, Forget, Turn
    <2> QED  BY <2>2, <2>3
  <1>16. CASE Refused
    <2>1. lost' \subseteq Passwords
      BY <1>16 DEF Refused, Fails, Fail, Unstored
    <2> QED  BY <1>16, <2>1 DEF Refused, Fails, Fail, Forget, sentinels
  <1>17. CASE Cut
    <2>1. lost' \subseteq Passwords
      BY <1>17 DEF Cut, Fail, Unstored
    <2> QED  BY <1>17, <2>1 DEF Cut, Fail, Forget, sentinels
  <1>18. ASSUME NEW i \in Hosts, Record(i) PROVE Typing'
    BY <1>18 DEF Record, Recorded, play, Conf
  <1>19. ASSUME NEW i \in Hosts, Reboot(i) PROVE Typing'
    <2>1. /\ up' \in [Hosts -> BOOLEAN] /\ accepts' \in [Hosts -> SUBSET Passwords]
          /\ uses' \in [Hosts -> Passwords] /\ req' \in [Hosts -> Passwords]
          /\ file' \in [Hosts -> Conf]
      BY <1>19, LoadTyped DEF Reboot
    <2> QED  BY <1>19, <2>1 DEF Reboot
  <1>20. CASE UNCHANGED vars
    BY <1>20 DEF vars
  <1> QED
    BY <1>1, <1>2, <1>3, <1>4, <1>5, <1>6, <1>7, <1>8, <1>9, <1>10, <1>11, <1>12,
       <1>13, <1>14, <1>15, <1>16, <1>17, <1>18, <1>19, <1>20 DEF Next

(* TypeOK of SentinelRotation: a Sentinel's file is being edited exactly   *)
(* in the tasks that edit it, whatever is cut off or rebooted.             *)
THEOREM TypeCorrect == Spec => []TypeOK
  <1>1. Typing => TypeOK  BY DEF Typing
  <1> QED  BY TypingInit, TypingStep, <1>1, PTL DEF Spec
------------------------------------------------------------------------------
(* A Sentinel that knows one password, and would after a restart.          *)
Agreed(i, w) ==
    /\ up[i] /\ accepts[i] = {w} /\ uses[i] = w /\ req[i] = w
    /\ file[i].pass = w /\ file[i].peer = w /\ file[i].acl \in {{}, {w}}

(* Once a rotation has ended well, all do.  During one, those do whose     *)
(* file has been through the loop, and the one in work stays down, unless  *)
(* a reboot met the edits of its file.                                     *)
Agreement ==
    /\ rotated => /\ \A i \in Hosts : Agreed(i, vault)
                  /\ "rotate" \notin flags
    /\ sound /\ pc \in FileTasks =>
          \A i \in Hosts : i \notin files /\ i # at => Agreed(i, vault)
    /\ sound /\ (pc \in {"drop", "check"} \/ (pc = "declare" /\ "rotate" \in flags)) =>
          \A i \in Hosts : Agreed(i, vault)
    /\ sound /\ pc \in Edits => ~up[at]
    /\ sound /\ pc \in {"peer", "acl"} => file[at].pass = vault
    /\ sound /\ pc = "acl" => file[at].peer = vault
    /\ sound /\ pc = "start" =>
          \/ Agreed(at, vault)
          \/ ~up[at] /\ file[at] = Rendered(vault)
    /\ sound /\ pc = "back" => Agreed(at, vault)

LEMMA AgreedLoads ==
    ASSUME Typing, NEW i \in Hosts, NEW j \in Hosts, NEW w, Load(i),
           Agreed(j, w) \/ (i = j /\ file[i] = Rendered(w))
    PROVE  Agreed(j, w)'
  BY DEF Typing, TypeOK, Conf, Agreed, Load, Loads, Rendered

LEMMA AgreedRecords ==
    ASSUME Typing, NEW i \in Hosts, NEW j \in Hosts, NEW w, Agreed(j, w),
           NEW conf \in Recorded(i), file' = [file EXCEPT ![i] = conf],
           UNCHANGED <<up, accepts, uses, req>>
    PROVE  Agreed(j, w)'
  BY DEF Typing, TypeOK, Conf, Agreed, Recorded

LEMMA AgreementInit == Init => Agreement
  BY SentinelAssumption DEF Init, Agreement, Agreed, Rendered, FileTasks, Edits

LEMMA AgreementStep == Typing /\ Agreement /\ [Next]_vars => Agreement'
  <1> SUFFICES ASSUME Typing, Agreement, [Next]_vars PROVE Agreement'
    OBVIOUS
  <1> USE SentinelAssumption
  <1> USE DEF FileTasks, NewTasks, OldTasks, Edits
  <1>1. ASSUME NEW asked \in SUBSET {"rotate", "reset"}, Begin(asked) PROVE Agreement'
    BY <1>1 DEF Begin, At, sentinels, Agreement, Agreed
  <1>2. CASE Secret
    BY <1>2 DEF Secret, At, Goto, sentinels, Agreement, Agreed
  <1>3. CASE WriteConf
    BY <1>3 DEF WriteConf, At, Goto, Rendered, Agreement, Agreed, Typing, TypeOK, Passed, Conf
  <1>4. CASE Container
    <2>1. rotated' => \A i \in Hosts : Agreed(i, vault)'
      <3>1. CASE Load(host)
        BY <1>4, <3>1, AgreedLoads DEF Container, At, Goto, Agreement, Typing, TypeOK
      <3>2. CASE UNCHANGED sentinels
        BY <1>4, <3>2 DEF Container, At, Goto, Agreement, sentinels, Agreed
      <3> QED  BY <1>4, <3>1, <3>2 DEF Container
    <2> QED  BY <1>4, <2>1 DEF Container, At, Goto, Agreement
  <1>5. CASE Mint
    BY <1>5 DEF Mint, At, Goto, sentinels, Agreement, Agreed
  <1>6. CASE Accept
    BY <1>6 DEF Accept, At, Goto, Agreement, Agreed, Typing, Passed
  <1>7. CASE Store
    BY <1>7 DEF Store, At, Goto, sentinels, Agreement, Agreed, Typing, Passed
  <1>8. CASE Use
    BY <1>8 DEF Use, At, Goto, Agreement, Agreed, Typing, Passed
  <1>9. CASE Stop
    BY <1>9 DEF Stop, At, Goto, Agreement, Agreed, Typing, TypeOK, Passed
  <1>10. CASE EditPass \/ EditPeer \/ DropLine
    <2>1. at \in Hosts /\ file[at] \in Conf /\ vault = new /\ ~rotated /\ ~rotated'
      BY <1>10 DEF EditPass, EditPeer, DropLine, Edit, At, Goto, Agreement, Typing, TypeOK, Passed
    <2>2. \A i \in Hosts : i # at /\ Agreed(i, vault) => Agreed(i, vault)'
      BY <1>10, <2>1 DEF EditPass, EditPeer, DropLine, Edit, Agreed, Typing, TypeOK
    <2>3. UNCHANGED <<vault, files, at, sound>>
      BY <1>10 DEF EditPass, EditPeer, DropLine, Edit, Goto
    <2>4. sound' => \A i \in Hosts : i \notin files' /\ i # at' => Agreed(i, vault)'
      BY <1>10, <2>2, <2>3 DEF EditPass, EditPeer, DropLine, Edit, At, Agreement
    <2>5. CASE EditPass
      <3>1. file'[at].pass = new
        BY <2>1, <2>5 DEF EditPass, Edit, Conf, Typing, TypeOK
      <3> QED  BY <2>1, <2>3, <2>4, <2>5, <3>1 DEF EditPass, Edit, At, Goto, Agreement
    <2>6. CASE EditPeer
      <3>1. file'[at].peer = new /\ file'[at].pass = file[at].pass
        BY <2>1, <2>6 DEF EditPeer, Edit, Conf, Typing, TypeOK
      <3> QED  BY <2>1, <2>3, <2>4, <2>6, <3>1 DEF EditPeer, Edit, At, Goto, Agreement
    <2>7. CASE DropLine
      <3>1. sound => file'[at] = Rendered(vault)
        BY <2>1, <2>7 DEF DropLine, Edit, At, Conf, Typing, TypeOK, Agreement, Rendered
      <3> QED  BY <2>1, <2>3, <2>4, <2>7, <3>1 DEF DropLine, Edit, At, Goto, Agreement
    <2> QED  BY <1>10, <2>5, <2>6, <2>7
  <1>11. CASE Start
    <2>1. CASE up[at]
      BY <1>11, <2>1 DEF Start, At, Goto, sentinels, Agreement, Agreed, Typing, TypeOK, Passed
    <2>2. CASE ~up[at]
      <3>1. Load(at) /\ at \in Hosts
        BY <1>11, <2>2 DEF Start, At, Typing, TypeOK
      <3>2. sound => Agreed(at, vault)'
        BY <1>11, <3>1, <2>2, AgreedLoads DEF Start, At, Agreement, Agreed
      <3>3. sound => \A i \in Hosts : i \notin files /\ i # at => Agreed(i, vault)'
        BY <1>11, <3>1, AgreedLoads DEF Start, At, Agreement
      <3> QED  BY <1>11, <3>2, <3>3 DEF Start, At, Goto, Agreement, Typing, Passed
    <2> QED  BY <2>1, <2>2
  <1>12. CASE Back
    BY <1>12 DEF Back, At, Goto, sentinels, Agreement, Agreed, Typing, TypeOK, Passed
  <1>13. CASE Drop
    BY <1>13 DEF Drop, At, Goto, Agreement, Agreed, Typing, TypeOK, Passed, Conf
  <1>14. CASE Check
    BY <1>14 DEF Check, At, Goto, sentinels, Agreement, Agreed
  <1>15. CASE Declare
    <2>1. \A j \in Hosts : Agreed(j, vault) => Agreed(j, vault)'
      BY <1>15, AgreedRecords DEF Declare, At, Typing, TypeOK
    <2> QED  BY <1>15, <2>1 DEF Declare, At, Agreement
  <1>16. CASE Refused
    BY <1>16 DEF Refused, Fails, Fail, sentinels, Agreement, Agreed
  <1>17. CASE Cut
    BY <1>17 DEF Cut, Fail, sentinels, Agreement, Agreed
  <1>18. ASSUME NEW i \in Hosts, Record(i) PROVE Agreement'
    <2>1. \A j \in Hosts : Agreed(j, vault) => Agreed(j, vault)'
      BY <1>18, AgreedRecords DEF Record
    <2> QED
      BY <1>18, <2>1 DEF Record, Agreement, play, Typing, TypeOK
  <1>19. ASSUME NEW i \in Hosts, Reboot(i) PROVE Agreement'
    <2>1. \A j \in Hosts : Agreed(j, vault) => Agreed(j, vault)'
      BY <1>19, AgreedLoads DEF Reboot
    <2>2. i = at /\ file[at] = Rendered(vault) => Agreed(at, vault)'
      BY <1>19, AgreedLoads DEF Reboot
    <2> QED
      BY <1>19, <2>1, <2>2 DEF Reboot, Agreement, Load, Typing, TypeOK
  <1>20. CASE UNCHANGED vars
    BY <1>20 DEF vars, Agreement, Agreed
  <1> QED
    BY <1>1, <1>2, <1>3, <1>4, <1>5, <1>6, <1>7, <1>8, <1>9, <1>10, <1>11, <1>12,
       <1>13, <1>14, <1>15, <1>16, <1>17, <1>18, <1>19, <1>20 DEF Next

(* RotatedMeansAgreed of SentinelRotation, for any number of Sentinels.    *)
THEOREM RotationAgrees == Spec => []RotatedMeansAgreed
  <1>1. Agreement => RotatedMeansAgreed
    BY DEF Agreement, Agreed, RotatedMeansAgreed, Loads
  <1> QED  BY TypingInit, TypingStep, AgreementInit, AgreementStep, <1>1, PTL DEF Spec
------------------------------------------------------------------------------
(* Every Sentinel takes a password Vault holds or held, whichever way its  *)
(* file may be written and read again; what a play has drawn is nobody's   *)
(* until a Sentinel accepts it.                                            *)
Unknown == lost \cup Unstored
Openings ==
    /\ vault \notin Unknown
    /\ \A i \in Hosts :
          /\ accepts[i] \ Unknown # {}
          /\ req[i] \notin Unknown /\ file[i].pass \notin Unknown
          /\ file[i].acl = {} \/ file[i].acl \ Unknown # {}
    /\ pc \in {"accept", "store"} => new \notin lost
    /\ pc = "accept" => \A i \in Hosts :
          /\ new \notin accepts[i] /\ new # req[i]
          /\ new # file[i].pass /\ new \notin file[i].acl

LEMMA OpeningsInit == Init => Openings
  BY DEF Init, Openings, Unknown, Unstored, Rendered

LEMMA OpeningsLoad ==
    ASSUME Typing, Openings, NEW i \in Hosts, Load(i),
           UNCHANGED <<vault, pc, new, lost>>
    PROVE  Openings'
  BY DEF Typing, TypeOK, Conf, Openings, Unknown, Unstored, Load, Loads

LEMMA OpeningsRecord ==
    ASSUME Typing, Openings, NEW i \in Hosts,
           NEW conf \in Recorded(i), file' = [file EXCEPT ![i] = conf],
           UNCHANGED <<vault, accepts, req, pc, new, lost>>
    PROVE  Openings'
  BY DEF Typing, TypeOK, Conf, Openings, Unknown, Unstored, Recorded

(* A step that touches no Sentinel, nor Vault, before Vault is written.    *)
LEMMA OpeningsSame ==
    ASSUME Openings, UNCHANGED <<vault, sentinels>>, Unknown' = Unknown,
           pc' \notin {"accept", "store"}
    PROVE  Openings'
  BY DEF Openings, sentinels

LEMMA OpeningsFail ==
    ASSUME Openings, Fail, UNCHANGED <<vault, sentinels>>
    PROVE  Openings'
  <1>1. Unknown' = Unknown /\ pc' = "idle"
    BY DEF Fail, Unknown, Unstored
  <1> QED  BY <1>1, OpeningsSame

LEMMA OpeningsStep == Typing /\ Openings /\ [Next]_vars => Openings'
  <1> SUFFICES ASSUME Typing, Openings, [Next]_vars PROVE Openings'
    OBVIOUS
  <1> USE SentinelAssumption
  <1> USE DEF FileTasks, NewTasks, OldTasks, Edits
  <1>1. ASSUME NEW asked \in SUBSET {"rotate", "reset"}, Begin(asked) PROVE Openings'
    BY <1>1, OpeningsSame DEF Begin, At, Unknown, Unstored
  <1>2. CASE Secret
    BY <1>2, OpeningsSame DEF Secret, At, Goto, Unknown, Unstored
  <1>3. CASE WriteConf
    BY <1>3 DEF WriteConf, At, Goto, Rendered, Openings, Unknown, Unstored,
       Typing, TypeOK, Passed, Conf
  <1>4. CASE Container
    <2>1. Unknown' = Unknown /\ pc' \notin {"accept", "store"} /\ UNCHANGED vault
      BY <1>4 DEF Container, At, Goto, Unknown, Unstored
    <2>2. CASE Load(host)
      BY <1>4, <2>1, <2>2 DEF Container, At, Openings, Load, Loads, Typing, TypeOK, Conf
    <2>3. CASE UNCHANGED sentinels
      BY <2>1, <2>3, OpeningsSame
    <2> QED  BY <1>4, <2>2, <2>3 DEF Container
  <1>5. CASE Mint
    <2>1. /\ new' \notin lost
          /\ \A i \in Hosts : /\ new' \notin accepts[i] /\ new' # req[i]
                               /\ new' # file[i].pass /\ new' \notin file[i].acl
      BY <1>5, Fresh DEF Mint
    <2> QED
      BY <1>5, <2>1 DEF Mint, At, Goto, sentinels, Openings, Unknown, Unstored
  <1>6. CASE Accept
    <2>1. /\ pc = "accept" /\ pc' = "store" /\ host \in Hosts
          /\ Unknown = lost /\ Unknown' = lost \cup {new} /\ new # vault /\ new \notin lost
          /\ UNCHANGED <<vault, req, file, new, lost>>
      BY <1>6 DEF Accept, At, Goto, Unknown, Unstored, Typing, TypeOK, Passed, Openings
    <2>2. \A i \in Hosts : accepts[i] \subseteq accepts'[i]
      BY <1>6 DEF Accept, Typing, TypeOK
    <2> QED  BY <2>1, <2>2 DEF Openings
  <1>7. CASE Store
    BY <1>7 DEF Store, At, Goto, sentinels, Openings, Unknown, Unstored, Typing, Passed
  <1>8. CASE Use
    BY <1>8 DEF Use, At, Goto, Openings, Unknown, Unstored
  <1>9. CASE Stop
    BY <1>9 DEF Stop, At, Goto, Openings, Unknown, Unstored
  <1>10. CASE EditPass \/ EditPeer \/ DropLine
    <2>1. /\ at \in Hosts /\ new = vault /\ pc' \notin {"accept", "store"} /\ Unknown' = Unknown
          /\ UNCHANGED <<vault, accepts, req>>
      BY <1>10 DEF EditPass, EditPeer, DropLine, Edit, At, Goto, Typing, TypeOK, Passed,
         Unknown, Unstored
    <2>2. \A i \in Hosts : /\ file'[i].pass \in {file[i].pass, new}
                           /\ file'[i].acl \in {file[i].acl, {}}
      BY <1>10, <2>1 DEF EditPass, EditPeer, DropLine, Edit, Typing, TypeOK, Conf
    <2> QED  BY <2>1, <2>2 DEF Openings
  <1>11. CASE Start
    <2>1. Unknown' = Unknown /\ pc' \notin {"accept", "store"} /\ UNCHANGED vault
      BY <1>11 DEF Start, At, Goto, Unknown, Unstored
    <2>2. CASE Load(at)
      BY <1>11, <2>1, <2>2 DEF Start, At, Openings, Load, Loads, Typing, TypeOK, Conf
    <2>3. CASE UNCHANGED sentinels
      BY <2>1, <2>3, OpeningsSame
    <2> QED  BY <1>11, <2>2, <2>3 DEF Start
  <1>12. CASE Back
    BY <1>12, OpeningsSame DEF Back, At, Goto, Unknown, Unstored
  <1>13. CASE Drop
    <2>1. /\ new \in accepts[host] /\ new # pw /\ new = vault /\ host \in Hosts
          /\ pc' = "check" /\ Unknown' = Unknown /\ UNCHANGED <<vault, req>>
      BY <1>13 DEF Drop, Opens, At, Goto, Typing, TypeOK, Passed, Unknown, Unstored
    <2>2. /\ \A i \in Hosts \ {host} : accepts'[i] = accepts[i] /\ file'[i] = file[i]
          /\ new \in accepts'[host]
          /\ file'[host].pass = req[host] /\ file'[host].acl \in {{}, accepts'[host]}
      BY <1>13, <2>1 DEF Drop, Typing, TypeOK
    <2> QED  BY <2>1, <2>2 DEF Openings
  <1>14. CASE Check
    BY <1>14, OpeningsSame DEF Check, At, Goto, Unknown, Unstored
  <1>15. CASE Declare
    <2>1. Unknown' = Unknown /\ pc' \notin {"accept", "store"} /\ UNCHANGED <<vault, accepts, req>>
      BY <1>15 DEF Declare, At, Unknown, Unstored
    <2>2. \A i \in Hosts : \/ file'[i] = file[i]
                           \/ file'[i].pass = req[i] /\ file'[i].acl \in {{}, accepts[i]}
      BY <1>15 DEF Declare, Recorded, Typing, TypeOK
    <2> QED  BY <2>1, <2>2 DEF Openings
  <1>16. CASE Refused
    BY <1>16, OpeningsFail DEF Refused, Fails
  <1>17. CASE Cut
    BY <1>17, OpeningsFail DEF Cut
  <1>18. ASSUME NEW i \in Hosts, Record(i) PROVE Openings'
    BY <1>18, OpeningsRecord DEF Record, play
  <1>19. ASSUME NEW i \in Hosts, Reboot(i) PROVE Openings'
    BY <1>19, OpeningsLoad DEF Reboot
  <1>20. CASE UNCHANGED vars
    BY <1>20 DEF vars, Openings, Unknown, Unstored
  <1> QED
    BY <1>1, <1>2, <1>3, <1>4, <1>5, <1>6, <1>7, <1>8, <1>9, <1>10, <1>11, <1>12,
       <1>13, <1>14, <1>15, <1>16, <1>17, <1>18, <1>19, <1>20 DEF Next

(* NeverLockedOut of SentinelRotation, wherever plays are cut off.         *)
THEOREM NobodyLockedOut == Spec => []NeverLockedOut
  <1>1. Openings => NeverLockedOut
    BY DEF Openings, Unknown, NeverLockedOut, Loads
  <1> QED  BY TypingInit, TypingStep, OpeningsInit, OpeningsStep, <1>1, PTL DEF Spec
------------------------------------------------------------------------------
(* What is down and not in work, and that the loop leaves none down: the   *)
(* Sentinel it waits for has been started.                                 *)
Down == {i \in Hosts : ~up[i] /\ i # at}
Stopped ==
    /\ Cardinality(Down) <= faults
    /\ pc = "back" => up[at]

(* Only a play that is cut off leaves one more.                            *)
LEMMA DownGrows ==
    ASSUME Typing, Stopped, [Next]_vars
    PROVE  \/ Down' \subseteq Down /\ faults' \in {faults, faults + 1}
           \/ Down' \subseteq Down \cup {at} /\ faults' = faults + 1
  <1> USE SentinelAssumption
  <1>1. CASE Cut
    BY <1>1 DEF Cut, Fail, Forget, sentinels, Down
  <1>2. CASE Refused
    <2>1. at = NoHost \/ up[at]
      BY <1>2 DEF Refused, Typing, TypeOK, Edits, Stopped
    <2> QED
      BY <1>2, <2>1 DEF Refused, Fails, Fail, Forget, sentinels, Down
  <1>3. CASE Stop
    <2>1. at = NoHost /\ UNCHANGED faults
      BY <1>3 DEF Stop, At, Goto, Typing, TypeOK, Edits
    <2>2. \A i \in Hosts : i # at' => up'[i] = up[i]
      BY <1>3 DEF Stop, Typing, TypeOK
    <2> QED  BY <2>1, <2>2 DEF Down
  <1>4. CASE Back
    BY <1>4 DEF Back, At, Goto, Opens, sentinels, Down
  <1>5. ASSUME NEW i \in Hosts, Reboot(i)
        PROVE  Down' \subseteq Down /\ faults' = faults + 1
    BY <1>5 DEF Reboot, Load, Typing, TypeOK, Down
  <1>6. CASE Container \/ Start
    <2>1. UNCHANGED <<at, faults>>
      BY <1>6 DEF Container, Start, At, Goto
    <2>2. \A i \in Hosts : up[i] => up'[i]
      BY <1>6 DEF Container, Start, At, Load, sentinels, Typing, TypeOK
    <2> QED  BY <2>1, <2>2 DEF Down
  <1>7. CASE Declare
    <2>1. at = NoHost /\ at' = NoHost /\ UNCHANGED <<up, faults>>
      BY <1>7 DEF Declare, At, Forget, Typing, TypeOK, Edits
    <2> QED  BY <2>1 DEF Down
  <1>8. ASSUME UNCHANGED <<up, at, faults>>
        PROVE  Down' \subseteq Down /\ faults' = faults
    BY <1>8 DEF Down
  <1>9. \/ Cut \/ Refused \/ Stop \/ Back \/ Container \/ Start \/ Declare
        \/ (\E i \in Hosts : Reboot(i)) \/ UNCHANGED <<up, at, faults>>
    BY DEF Next, vars, sentinels, play, Begin, Secret, WriteConf, Mint, Accept, Store, Use,
       EditPass, EditPeer, DropLine, Edit, Drop, Check, Record, At, Goto
  <1> QED  BY <1>1, <1>2, <1>3, <1>4, <1>5, <1>6, <1>7, <1>8, <1>9

LEMMA StartedIsUp ==
    ASSUME Typing, Stopped, [Next]_vars, pc' = "back" PROVE up'[at']
  <1>1. CASE Start
    <2>1. at \in Hosts /\ at' = at /\ up \in [Hosts -> BOOLEAN]
      BY <1>1 DEF Start, At, Typing, TypeOK, Edits
    <2> QED  BY <1>1, <2>1 DEF Start, Load, sentinels
  <1>2. CASE UNCHANGED <<up, at, pc>>
    BY <1>2 DEF Stopped
  <1>3. ASSUME NEW i \in Hosts, Reboot(i) PROVE up'[at']
    BY <1>3 DEF Reboot, Load, Stopped, Typing, TypeOK, Edits
  <1>4. Start \/ UNCHANGED <<up, at, pc>> \/ \E i \in Hosts : Reboot(i)
    BY DEF Next, vars, sentinels, play, Begin, Secret, WriteConf, Container, Mint, Accept,
       Store, Use, Stop, EditPass, EditPeer, DropLine, Edit, Back, Drop, Check, Declare,
       Refused, Fails, Fail, Cut, Record, At, Goto
  <1> QED  BY <1>1, <1>2, <1>3, <1>4

LEMMA StoppedStep == Typing /\ Stopped /\ [Next]_vars => Stopped'
  <1> SUFFICES ASSUME Typing, Stopped, [Next]_vars PROVE Cardinality(Down') <= faults'
    BY StartedIsUp DEF Stopped
  <1>1. IsFiniteSet(Down) /\ Cardinality(Down) \in Nat
    BY SentinelAssumption, FS_Subset, FS_CardinalityType DEF Down
  <1>2. faults \in Nat
    BY SentinelAssumption DEF Typing, TypeOK
  <1>3. CASE Down' \subseteq Down /\ faults' \in {faults, faults + 1}
    <2>1. Cardinality(Down') <= Cardinality(Down) /\ Cardinality(Down') \in Nat
      BY <1>1, <1>3, FS_Subset, FS_CardinalityType
    <2> QED  BY <1>1, <1>2, <1>3, <2>1 DEF Stopped
  <1>4. CASE Down' \subseteq Down \cup {at} /\ faults' = faults + 1
    <2>1. /\ IsFiniteSet(Down \cup {at})
          /\ Cardinality(Down \cup {at}) \in Nat
          /\ Cardinality(Down \cup {at}) <= Cardinality(Down) + 1
      BY <1>1, FS_AddElement, FS_CardinalityType
    <2>2. Cardinality(Down') <= Cardinality(Down \cup {at}) /\ Cardinality(Down') \in Nat
      BY <1>4, <2>1, FS_Subset, FS_CardinalityType
    <2> QED  BY <1>1, <1>2, <1>4, <2>1, <2>2 DEF Stopped
  <1> QED  BY <1>3, <1>4, DownGrows

(* OneStopped of SentinelRotation: the rotation itself stops one Sentinel  *)
(* at a time; what else is down, a cut-off play left.                      *)
THEOREM OneStoppedAtATime == Spec => []OneStopped
  <1>1. Init => Stopped
    <2>1. ASSUME Init PROVE Down = {}
      BY <2>1 DEF Init, Down
    <2>2. ASSUME Init PROVE Cardinality(Down) = 0
      BY <2>1, <2>2, FS_EmptySet
    <2> QED  BY <2>2 DEF Init, Stopped
  <1>2. Stopped => OneStopped
    BY DEF Stopped, Down, OneStopped
  <1> QED  BY TypingInit, TypingStep, StoppedStep, <1>1, <1>2, PTL DEF Spec
==============================================================================
