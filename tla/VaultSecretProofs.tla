-------------------------- MODULE VaultSecretProofs --------------------------
(***************************************************************************)
(* What holds of roles/vault_secret for any number of hosts, any secrets   *)
(* and any number of failed calls.                                         *)
(***************************************************************************)
EXTENDS VaultSecret, TLAPS

(* The role starts with types as declared.                                 *)
THEOREM InitTyped == Init => TypeOK
  BY VaultAssumption DEF Init, TypeOK, Idle, Calls, Tasks

LEMMA CombineTyped ==
    ASSUME NEW d \in Documents \cup {NoDoc}, NEW f \in Forces
    PROVE  Combine(d, f) \in Documents
  BY VaultAssumption

(* The bookkeeping of the lockstep keeps its types.                        *)
LEMMA StepTyped == TypeOK /\ [Next]_vars => TypeOK'
<1> SUFFICES ASSUME TypeOK, [Next]_vars PROVE TypeOK'
  OBVIOUS
<1> USE DEF TypeOK
<1>1. ASSUME NEW call \in Calls, Begin(call) PROVE TypeOK'
  BY <1>1 DEF Begin, Tasks, Calls
<1>2. CASE NextTask
  <2>1. play' \in Calls /\ todo' \in SUBSET play'.hosts
    BY <1>2 DEF NextTask, Idle, Calls
  <2>2. task' \in Tasks
    BY <1>2 DEF NextTask, Tasks, After
  <2> QED
    BY <1>2, <2>1, <2>2 DEF NextTask
<1>3. CASE Cut
  <2>1. play' \in Calls /\ todo' \in SUBSET play'.hosts
    BY <1>3 DEF Cut, Idle, Calls
  <2>2. faults' \in 0 .. MaxFaults
    BY <1>3, VaultAssumption DEF Cut
  <2> QED
    BY <1>3, <2>1, <2>2 DEF Cut, Tasks
<1>4. ASSUME NEW h \in Hosts, Done(h) PROVE play' \in Calls /\ todo' \in SUBSET play'.hosts
                                            /\ faults' \in 0 .. MaxFaults
  BY <1>4 DEF Done
<1>5. ASSUME NEW h \in Hosts, Failed(h) PROVE play' \in Calls /\ todo' \in SUBSET play'.hosts
  BY <1>5 DEF Failed, Calls
<1>6. ASSUME NEW h \in Hosts, Fault(h) PROVE play' \in Calls /\ todo' \in SUBSET play'.hosts
                                             /\ faults' \in 0 .. MaxFaults
  BY <1>5, <1>6, VaultAssumption DEF Fault
<1>7. ASSUME NEW h \in Hosts, Read(h) PROVE TypeOK'
  BY <1>4, <1>5, <1>6, <1>7 DEF Read
<1>8. ASSUME NEW h \in Hosts, Initialize(h) PROVE TypeOK'
  BY <1>4, <1>6, <1>8, VaultAssumption DEF Initialize
<1>9. ASSUME NEW h \in Hosts, ReRead(h) PROVE TypeOK'
  BY <1>4, <1>6, <1>9 DEF ReRead
<1>10. ASSUME NEW h \in Hosts, ForceWrite(h) PROVE TypeOK'
  <2>1. play.force # NoDoc => Combine(got[h], play.force) \in Documents
    BY CombineTyped DEF Calls
  <2> QED
    BY <1>4, <1>6, <1>10, <2>1 DEF ForceWrite
<1>11. ASSUME NEW h \in Hosts, Stamp(h) PROVE TypeOK'
  BY <1>4, <1>6, <1>11 DEF Stamp, Calls
<1>12. ASSUME NEW h \in Hosts, Publish(h) PROVE TypeOK'
  <2>1. play.force # NoDoc => Combine(got[h], play.force) \in Documents
    BY CombineTyped DEF Calls
  <2> QED
    BY <1>4, <1>12, <2>1 DEF Publish
<1>13. CASE UNCHANGED vars
  BY <1>13 DEF vars
<1> QED
  BY <1>1, <1>2, <1>3, <1>7, <1>8, <1>9, <1>10, <1>11, <1>12, <1>13 DEF Next

(* The type invariant.                                                     *)
THEOREM TypeCorrect == Spec => []TypeOK
  BY InitTyped, StepTyped, PTL DEF Spec
------------------------------------------------------------------------------
(* What a host in step with the others has read agrees with what is        *)
(* stored, but for a document its play is creating.                        *)
Creating(h) == play.init /\ ~play.check /\ got[h] = NoDoc /\ doc # NoDoc
Fresh(h) == got[h] = doc
Rotated(h) == IF play.force # NoDoc /\ ~play.check
                THEN doc = Combine(got[h], play.force) ELSE Fresh(h)

InStep ==
    /\ play.force # NoDoc => \A g, h \in play.hosts : g = h
    /\ task = "read" => \A h \in play.hosts : IF h \in todo THEN got[h] = NoDoc ELSE Fresh(h)
    /\ task = "init" =>
          (\A h \in play.hosts : Fresh(h)) \/ (\A h \in play.hosts : Creating(h))
    /\ task = "reread" =>
          \A h \in play.hosts : Fresh(h) \/ (h \in todo /\ Creating(h))
    /\ task = "force" =>
          \A h \in play.hosts : IF h \in todo THEN Fresh(h) ELSE Rotated(h)
    /\ task \in {"stamp", "publish"} => \A h \in play.hosts : Rotated(h)

IInv == TypeOK /\ InStep

(* Before the first play every host is in step.                            *)
THEOREM InitInStep == Init => InStep
  BY DEF Init, InStep, Idle

(* A task run by one host changes nothing the others' claims rest on,      *)
(* except the document, when all of them are creating it or it is alone.   *)
LEMMA StepInStep == IInv /\ [Next]_vars => InStep'
<1> SUFFICES ASSUME TypeOK, InStep, [Next]_vars PROVE InStep'
  BY DEF IInv
<1> USE DEF TypeOK, InStep, Fresh, Creating, Rotated
<1>1. ASSUME NEW call \in Calls, Begin(call) PROVE InStep'
  BY <1>1 DEF Begin, Calls
<1>2. CASE NextTask
  <2>1. CASE task' = "none"
    BY <1>2, <2>1 DEF NextTask, Idle
  <2>2. CASE task' # "none"
    <3>1. /\ play' = play /\ todo' = play.hosts /\ task' = After[task]
          /\ UNCHANGED <<doc, got>> /\ todo = {}
      BY <1>2, <2>2 DEF NextTask
    <3>2. CASE task = "read"
      BY <3>1, <3>2 DEF After
    <3>3. CASE task = "init"
      BY <3>1, <3>3 DEF After
    <3>4. CASE task = "reread"
      BY <3>1, <3>4 DEF After
    <3>5. CASE task \in {"force", "stamp", "publish"}
      BY <3>1, <3>5 DEF After
    <3> QED
      BY <1>2, <3>2, <3>3, <3>4, <3>5 DEF NextTask, Tasks
  <2> QED
    BY <2>1, <2>2
<1>3. CASE Cut
  BY <1>3 DEF Cut, Idle
<1>4. ASSUME NEW h \in Hosts, At(h, task), Done(h) \/ Failed(h) \/ Fault(h)
      PROVE  /\ todo' = todo \ {h} /\ play'.hosts \subseteq play.hosts
             /\ todo' \subseteq play'.hosts /\ h \in play.hosts
             /\ play'.init = play.init /\ play'.force = play.force /\ play'.check = play.check
             /\ h \in play'.hosts => play' = play
  BY <1>4 DEF At, Done, Failed, Fault, Calls
<1>5. ASSUME NEW h \in Hosts, Read(h) PROVE InStep'
  <2>1. /\ task = "read" /\ task' = "read" /\ doc' = doc /\ At(h, task)
        /\ Done(h) \/ Failed(h) \/ Fault(h)
    BY <1>5 DEF Read, At
  <2>2. \A g \in play'.hosts : g # h => got'[g] = got[g]
    <3>1. play'.hosts \subseteq Hosts
      BY <1>4, <2>1 DEF Calls
    <3>2. \A g \in Hosts : g # h => got'[g] = got[g]
      BY <1>5 DEF Read
    <3> QED
      BY <3>1, <3>2
  <2>3. h \in play'.hosts => got'[h] = doc
    <3>1. CASE got' = [got EXCEPT ![h] = doc]
      BY <3>1
    <3>2. CASE Fault(h)
      BY <3>2 DEF Fault, Failed, Calls
    <3> QED
      BY <1>5, <3>1, <3>2 DEF Read
  <2> QED
    BY <1>4, <2>1, <2>2, <2>3
<1>6. ASSUME NEW h \in Hosts, Initialize(h) PROVE InStep'
  BY <1>4, <1>6, VaultAssumption DEF Initialize, Creates, At, Done, Failed, Fault
<1>7. ASSUME NEW h \in Hosts, ReRead(h) PROVE InStep'
  <2>1. /\ task = "reread" /\ task' = "reread" /\ doc' = doc /\ At(h, task)
        /\ Done(h) \/ Failed(h) \/ Fault(h)
    BY <1>7 DEF ReRead, At
  <2>2. \A g \in play'.hosts : g # h => got'[g] = got[g]
    <3>1. play'.hosts \subseteq Hosts
      BY <1>4, <2>1 DEF Calls
    <3>2. \A g \in Hosts : g # h => got'[g] = got[g]
      BY <1>7 DEF ReRead
    <3> QED
      BY <3>1, <3>2
  <2>3. h \in play'.hosts => got'[h] = doc
    <3>1. CASE got' = IF Creates(h) THEN [got EXCEPT ![h] = doc] ELSE got
      <4>1. h \in play.hosts
        BY <2>1 DEF At
      <4> QED
        BY <2>1, <3>1, <4>1 DEF Creates
    <3>2. CASE Fault(h)
      BY <3>2 DEF Fault, Failed, Calls
    <3> QED
      BY <1>7, <3>1, <3>2 DEF ReRead
  <2> QED
    BY <1>4, <2>1, <2>2, <2>3
<1>8. ASSUME NEW h \in Hosts, ForceWrite(h) PROVE InStep'
  <2>1. /\ task = "force" /\ task' = "force" /\ got' = got /\ At(h, task)
        /\ Done(h) \/ Failed(h) \/ Fault(h)
    BY <1>8 DEF ForceWrite, At
  <2>2. CASE play.force = NoDoc \/ play.check
    BY <1>4, <1>8, <2>1, <2>2 DEF ForceWrite
  <2>3. CASE play.force # NoDoc /\ ~play.check
    <3>1. \A g \in play'.hosts : g = h
      BY <1>4, <2>1, <2>3
    <3>2. h \in play'.hosts => doc' = Combine(got[h], play.force)
      BY <1>8, <2>3 DEF ForceWrite, Fault, Failed, Calls
    <3> QED
      BY <1>4, <2>1, <2>3, <3>1, <3>2
  <2> QED
    BY <2>2, <2>3
<1>9. ASSUME NEW h \in Hosts, Stamp(h) PROVE InStep'
  BY <1>4, <1>9 DEF Stamp, At, Done, Failed, Fault
<1>10. ASSUME NEW h \in Hosts, Publish(h) PROVE InStep'
  BY <1>4, <1>10 DEF Publish, At, Done, Failed, Fault
<1>11. CASE UNCHANGED vars
  BY <1>11 DEF vars
<1> QED
  BY <1>1, <1>2, <1>3, <1>5, <1>6, <1>7, <1>8, <1>9, <1>10, <1>11 DEF Next

(* What a host in step has read is what is stored, but for a document its  *)
(* own play creates or rotates.                                            *)
THEOREM AlwaysInStep == Spec => []IInv
<1>1. Init => IInv
  BY InitTyped, InitInStep DEF IInv
<1>2. IInv /\ [Next]_vars => IInv'
  BY StepTyped, StepInStep DEF IInv
<1> QED
  BY <1>1, <1>2, PTL DEF Spec

------------------------------------------------------------------------------
LEMMA InitPromised == Init => Promise!Init
  BY DEF Init, Promise!Init, Draft

(* Every step creates, rotates, serves or settles a document, or changes   *)
(* nothing a caller can tell.                                              *)
LEMMA StepPromised == IInv /\ [Next]_vars => [Promise!Next]_(Promise!vars)
<1> SUFFICES ASSUME TypeOK, InStep, [Next]_vars
             PROVE  \/ Promise!Create \/ Promise!Settle
                    \/ \E fields \in Documents : Promise!Rotate(fields)
                    \/ \E h \in Hosts : Promise!Serve(h)
                    \/ UNCHANGED Promise!vars
  BY DEF IInv, Promise!Next
<1> DEFINE Quiet == UNCHANGED <<doc, served>> /\ (Draft' = FALSE \/ Draft' = Draft)
<1>1. ASSUME Quiet PROVE Promise!Settle \/ UNCHANGED Promise!vars
  BY <1>1 DEF Promise!Settle, Promise!vars
<1>2. ASSUME NEW call \in Calls, Begin(call) PROVE Quiet
  BY <1>2 DEF Begin, Draft
<1>3. ASSUME NextTask PROVE Quiet
  <2>1. ~Draft'
    BY <1>3 DEF NextTask, Draft, After, InStep, Fresh, TypeOK, Tasks
  <2> QED
    BY <1>3, <2>1 DEF NextTask, Draft
<1>4. ASSUME Cut PROVE Quiet
  BY <1>4 DEF Cut, Draft
<1>5. ASSUME NEW h \in Hosts, Read(h) PROVE Quiet
  BY <1>5 DEF Read, At, Draft
<1>6. ASSUME NEW h \in Hosts, Initialize(h) PROVE Quiet \/ Promise!Create
  <2>1. CASE doc' = doc
    BY <1>6, <2>1 DEF Initialize, At, Done, Fault, Failed, Draft, TypeOK, Calls
  <2>2. CASE doc' # doc
    <3>1. /\ Creates(h) /\ doc' \in Inits /\ UNCHANGED served
          /\ task = "init" /\ h \in play.hosts
      BY <1>6, <2>2 DEF Initialize, At, TypeOK
    <3>2. doc = NoDoc \/ Draft
      BY <3>1 DEF Creates, InStep, Fresh, Creating, Draft
    <3> QED
      BY <3>1, <3>2, VaultAssumption DEF Promise!Create, Draft
  <2> QED
    BY <2>1, <2>2
<1>7. ASSUME NEW h \in Hosts, ReRead(h) PROVE Quiet
  BY <1>7 DEF ReRead, At, Draft
<1>8. ASSUME NEW h \in Hosts, ForceWrite(h)
      PROVE  Quiet \/ \E fields \in Documents : Promise!Rotate(fields)
  <2>1. task = "force" /\ h \in play.hosts /\ Draft = FALSE /\ Draft' = FALSE /\ UNCHANGED served
    BY <1>8 DEF ForceWrite, At, Draft, TypeOK
  <2>2. CASE doc' = doc
    BY <2>1, <2>2
  <2>3. CASE doc' # doc
    <3>1. play.force \in Forces /\ doc' = Combine(doc, play.force)
      BY <1>8, <2>1, <2>3 DEF ForceWrite, At, InStep, Fresh, TypeOK, Calls
    <3>2. Promise!Rotate(play.force)
      BY <2>1, <3>1 DEF Promise!Rotate, Promise!Combine, Promise!Base,
                        Combine, Store!Combine, Store!Base
    <3> QED
      BY <3>1, <3>2, VaultAssumption
  <2> QED
    BY <2>2, <2>3
<1>9. ASSUME NEW h \in Hosts, Stamp(h) PROVE Quiet
  BY <1>9 DEF Stamp, At, Draft
<1>10. ASSUME NEW h \in Hosts, Publish(h) PROVE Quiet \/ Promise!Serve(h)
  <2>1. task = "publish" /\ h \in play.hosts /\ Draft = FALSE /\ Draft' = FALSE /\ doc' = doc
    BY <1>10 DEF Publish, At, Draft, TypeOK
  <2>2. CASE play.check
    BY <1>10, <2>1, <2>2 DEF Publish
  <2>3. CASE ~play.check
    BY <1>10, <2>1, <2>3 DEF Publish, InStep, Rotated, Fresh, Promise!Serve
  <2> QED
    BY <2>2, <2>3
<1>11. ASSUME UNCHANGED vars PROVE Quiet
  BY <1>11 DEF vars, Draft
<1> QED
  BY <1>1, <1>2, <1>3, <1>4, <1>5, <1>6, <1>7, <1>8, <1>9, <1>10, <1>11 DEF Next

(* Whatever fails and however many hosts call it together, the role keeps  *)
(* the promise of its defaults: created once, rotated field by field, and  *)
(* every caller is given what is stored.                                   *)
THEOREM PromiseKept == Spec => Implements
  BY InitPromised, AlwaysInStep, StepPromised, PTL
     DEF Implements, Spec, Promise!Spec

------------------------------------------------------------------------------
(* Between the write of a rotation and its stamp the old stamp may be      *)
(* behind; at any other time, while nothing failed, it is true.  A host    *)
(* that found no document has been stamping nothing.                       *)
Stamping == /\ play.force # NoDoc /\ ~play.check
            /\ (task = "force" /\ todo = {}) \/ (task = "stamp" /\ todo # {})
Tells(fields) == doc # NoDoc /\ \A f \in DOMAIN fields : doc[f] = fields[f]

StampInv ==
    faults = 0 =>
        /\ task \notin {"none", "read"} => play.hosts # {}
        /\ stamp # NoDoc /\ ~Stamping => Tells(stamp)
        /\ task = "init" /\ (\E h \in play.hosts : got[h] = NoDoc) => stamp = NoDoc

(* A combination has the fields it was combined with.                      *)
LEMMA CombineTells ==
    ASSUME NEW d, NEW fields
    PROVE  \A f \in DOMAIN fields : Combine(d, fields)[f] = fields[f]
  BY DEF Combine, Store!Combine

(* Whatever has been written, a rotated document tells what was forced.    *)
LEMMA RotatedTells ==
    ASSUME TypeOK, NEW h \in Hosts, Rotated(h), play.force # NoDoc, ~play.check
    PROVE  Tells(play.force)
<1>1. doc = Combine(got[h], play.force)
  BY DEF Rotated
<1>2. Combine(got[h], play.force) \in Documents
  BY CombineTyped DEF TypeOK, Calls
<1> QED BY <1>1, <1>2, CombineTells, VaultAssumption DEF Tells

LEMMA StepTells == IInv /\ StampInv /\ [Next]_vars => StampInv'
<1> SUFFICES ASSUME IInv, StampInv, [Next]_vars, faults' = 0 PROVE StampInv'
  BY DEF StampInv
<1>0. TypeOK /\ InStep /\ faults \in Nat
  BY VaultAssumption DEF IInv, TypeOK
<1>1. ASSUME NEW call \in Calls, Begin(call) PROVE StampInv'
  BY <1>1 DEF Begin, StampInv, Stamping, Tells
<1>2. CASE NextTask
  <2>1. faults = 0 /\ UNCHANGED <<doc, stamp, got>> /\ todo = {}
    BY <1>2 DEF NextTask
  <2>2. CASE task' = "none"
    <3>1. ~Stamping
      BY <1>2, <2>1, <2>2 DEF NextTask, Stamping, StampInv, After
    <3> QED BY <2>1, <2>2, <3>1 DEF StampInv, Stamping, Tells
  <2>3. CASE task' # "none"
    <3>1. play' = play /\ todo' = play.hosts /\ play.hosts # {} /\ task' = After[task]
      BY <1>2, <2>3 DEF NextTask
    <3>2. Stamping => Stamping'
      BY <2>1, <3>1 DEF Stamping, After
    <3>3. task' = "init" => task = "read"
      BY <1>0, <1>2, <3>1 DEF After, TypeOK, Tasks, NextTask
    <3>4. task = "read" => \A h \in play.hosts : got[h] = doc
      BY <1>0, <2>1 DEF InStep, Fresh
    <3> QED BY <2>1, <3>1, <3>2, <3>3, <3>4 DEF StampInv, Stamping, Tells
  <2> QED BY <2>2, <2>3
<1>3. CASE Cut
  BY <1>0, <1>3 DEF Cut
<1>4. ASSUME NEW h \in Hosts, Read(h) PROVE StampInv'
  <2>1. faults = 0 /\ task = "read" /\ task' = "read" /\ UNCHANGED <<doc, stamp>>
    BY <1>0, <1>4 DEF Read, At, Fault, Done
  <2> QED BY <2>1 DEF StampInv, Stamping, Tells
<1>5. ASSUME NEW h \in Hosts, At(h, task), Fault(h) PROVE FALSE
  BY <1>0, <1>5 DEF Fault
<1>6. ASSUME NEW h \in Hosts, Initialize(h) PROVE StampInv'
  <2>1. /\ task = "init" /\ task' = "init" /\ h \in todo /\ h \in play.hosts
        /\ Done(h) /\ UNCHANGED <<stamp, got>>
    BY <1>0, <1>5, <1>6 DEF Initialize, At, TypeOK
  <2>2. doc' = doc \/ stamp = NoDoc
    <3>1. CASE Creates(h)
      BY <2>1, <3>1 DEF Creates, StampInv, Done
    <3>2. CASE ~Creates(h)
      BY <1>6, <3>2 DEF Initialize
    <3> QED BY <3>1, <3>2
  <2> QED BY <2>1, <2>2 DEF StampInv, Stamping, Tells, Done
<1>7. ASSUME NEW h \in Hosts, ReRead(h) PROVE StampInv'
  <2>1. /\ task = "reread" /\ task' = "reread" /\ Done(h) /\ UNCHANGED <<doc, stamp>>
    BY <1>5, <1>7 DEF ReRead, At
  <2> QED BY <2>1 DEF StampInv, Stamping, Tells, Done
<1>8. ASSUME NEW h \in Hosts, ForceWrite(h) PROVE StampInv'
  <2>1. /\ task = "force" /\ task' = "force" /\ h \in todo /\ h \in play.hosts
        /\ Done(h) /\ UNCHANGED <<stamp, got>>
    BY <1>0, <1>5, <1>8 DEF ForceWrite, At, TypeOK
  <2>2. CASE play.force # NoDoc /\ ~play.check
    <3>1. todo' = {}
      BY <1>0, <2>1, <2>2 DEF InStep, TypeOK, Done
    <3> QED BY <2>1, <2>2, <3>1 DEF StampInv, Stamping, Done
  <2>3. CASE ~(play.force # NoDoc /\ ~play.check)
    BY <1>8, <2>1, <2>3 DEF ForceWrite, StampInv, Stamping, Tells, Done
  <2> QED BY <2>2, <2>3
<1>9. ASSUME NEW h \in Hosts, Stamp(h) PROVE StampInv'
  <2>1. /\ task = "stamp" /\ task' = "stamp" /\ h \in todo /\ h \in play.hosts
        /\ Done(h) /\ UNCHANGED <<doc, got>>
    BY <1>0, <1>5, <1>9 DEF Stamp, At, TypeOK
  <2>2. CASE play.force # NoDoc /\ ~play.check
    <3>1. Tells(play.force)
      BY <1>0, <2>1, <2>2, RotatedTells DEF InStep
    <3>2. stamp' = play.force
      BY <1>5, <1>9, <2>1, <2>2 DEF Stamp
    <3> QED BY <2>1, <3>1, <3>2 DEF StampInv, Tells, Done
  <2>3. CASE ~(play.force # NoDoc /\ ~play.check)
    BY <1>9, <2>1, <2>3 DEF Stamp, StampInv, Stamping, Tells, Done
  <2> QED BY <2>2, <2>3
<1>10. ASSUME NEW h \in Hosts, Publish(h) PROVE StampInv'
  <2>1. /\ task = "publish" /\ task' = "publish" /\ Done(h) /\ UNCHANGED <<doc, stamp, got>>
    BY <1>10 DEF Publish, At
  <2> QED BY <2>1 DEF StampInv, Stamping, Tells, Done
<1>11. CASE UNCHANGED vars
  BY <1>11 DEF vars, StampInv, Stamping, Tells
<1> QED
  BY <1>1, <1>2, <1>3, <1>4, <1>6, <1>7, <1>8, <1>9, <1>10, <1>11 DEF Next

(* The audit trail is true: while no call failed and no play was cut off,  *)
(* a document ever stamped holds what its last stamp says, for any set of  *)
(* fields forced, on any hosts.                                            *)
THEOREM StampIsTrue == Spec => []StampTellsTheDocument
<1>1. Init => StampInv
  BY DEF Init, StampInv
<1>2. IInv /\ StampInv /\ [Next]_vars => StampInv'
  BY StepTells
<1>3. StampInv => StampTellsTheDocument
  BY DEF StampInv, Stamping, Tells, StampTellsTheDocument
<1> QED
  BY <1>1, <1>2, <1>3, AlwaysInStep, PTL DEF Spec
==============================================================================
