----------------------------- MODULE VaultSecret -----------------------------
(***************************************************************************)
(* roles/vault_secret, tasks/main.yml: get, create or rotate one document  *)
(* of Vault's KV store, called by every role that needs a secret, on all   *)
(* hosts of a play at once (the three members of etcd, of PostgreSQL).     *)
(* Ansible's linear strategy keeps them in step: no host starts a task     *)
(* before all have ended the one before it; within a task they are in any  *)
(* order.  vault_secret_init draws a new random value on every host.       *)
(*                                                                         *)
(* One play is in progress at a time, and its identity may read the path.  *)
(***************************************************************************)
EXTENDS Naturals

CONSTANTS
    Hosts,
    Documents,   \* what may be stored: functions, field -> value
    Inits,       \* the values of vault_secret_init
    Forces,      \* the values of vault_secret_force_fields
    NoDoc,       \* nothing stored, nothing given
    MaxFaults    \* bound: calls refused or unanswered, plays cut off

VARIABLES
    doc,         \* the document in Vault
    stamp,       \* its custom metadata: the fields the last rotation stamped
    play,        \* the call in progress: its arguments, its hosts not failed
    task,        \* the task the hosts are at
    todo,        \* those that have not run it yet
    got,         \* host -> the document it has read in this play
    served,      \* host -> the last vault_secret_result it worked with
    faults

vars == <<doc, stamp, play, task, todo, got, served, faults>>

Store == INSTANCE SecretStore WITH draft <- FALSE
Combine(d, fields) == Store!Combine(Store!Base(d), fields)

ASSUME VaultAssumption ==
    /\ NoDoc \notin Documents
    /\ Inits \subseteq Documents /\ Forces \subseteq Documents
    /\ \A d \in Documents \cup {NoDoc}, f \in Forces : Combine(d, f) \in Documents
    /\ MaxFaults \in Nat

(* What a role includes it with: an init or none, fields to force (by one  *)
(* host) or NoDoc, optional or not, and check mode.                        *)
Calls == [hosts : SUBSET Hosts, init : BOOLEAN, force : Forces \cup {NoDoc},
          optional : BOOLEAN, check : BOOLEAN]
Idle == [hosts |-> {}, init |-> FALSE, force |-> NoDoc, optional |-> FALSE, check |-> FALSE]

Tasks == {"none", "read", "init", "reread", "force", "stamp", "publish"}
After == [read |-> "init", init |-> "reread", reread |-> "force",
          force |-> "stamp", stamp |-> "publish", publish |-> "none"]

Init ==
    /\ doc \in Documents \cup {NoDoc}
    /\ stamp = NoDoc
    /\ play = Idle
    /\ task = "none"
    /\ todo = {}
    /\ got = [h \in Hosts |-> NoDoc]
    /\ served = [h \in Hosts |-> NoDoc]
    /\ faults = 0

Begin(call) ==
    /\ task = "none"
    /\ call.hosts # {}
    /\ call.force # NoDoc => \E h \in Hosts : call.hosts = {h}
    /\ play' = call
    /\ task' = "read"
    /\ todo' = call.hosts
    /\ got' = [h \in Hosts |-> NoDoc]
    /\ UNCHANGED <<doc, stamp, served, faults>>

At(h, t) == task = t /\ h \in todo
Done(h) == todo' = todo \ {h} /\ UNCHANGED <<play, faults>>
Failed(h) == todo' = todo \ {h} /\ play' = [play EXCEPT !.hosts = @ \ {h}]
Fault(h) == faults < MaxFaults /\ faults' = faults + 1 /\ Failed(h)

(* All hosts have run the task.                                            *)
NextTask ==
    /\ task # "none" /\ todo = {}
    /\ task' = IF play.hosts = {} THEN "none" ELSE After[task]
    /\ todo' = IF task' = "none" THEN {} ELSE play.hosts
    /\ play' = IF task' = "none" THEN Idle ELSE play
    /\ UNCHANGED <<doc, stamp, got, served, faults>>

Read(h) ==
    /\ At(h, "read")
    /\ \/ /\ got' = [got EXCEPT ![h] = doc]
          /\ IF doc = NoDoc /\ ~play.init /\ ~play.optional
               THEN Failed(h) /\ UNCHANGED faults
               ELSE Done(h)
       \/ Fault(h) /\ UNCHANGED got
    /\ UNCHANGED <<doc, stamp, task, served>>

(* "Initialize secret in Vault when absent"; the answer may be lost.       *)
Creates(h) == play.init /\ got[h] = NoDoc
Initialize(h) ==
    /\ At(h, "init")
    /\ IF Creates(h) /\ ~play.check
         THEN \E d \in Inits :
                 \/ doc' = d /\ Done(h)
                 \/ doc' \in {doc, d} /\ Fault(h)
         ELSE UNCHANGED doc /\ Done(h)
    /\ UNCHANGED <<stamp, task, got, served>>

(* As if what was sent were taken for what is stored.                      *)
ReReadNothing(h) ==
    /\ At(h, "reread")
    /\ IF Creates(h) THEN \E d \in Inits : got' = [got EXCEPT ![h] = d]
                     ELSE UNCHANGED got
    /\ Done(h)
    /\ UNCHANGED <<doc, stamp, task, served>>

(* Under check mode there may be nothing to re-read, and no failure.       *)
ReRead(h) ==
    /\ At(h, "reread")
    /\ \/ /\ got' = IF Creates(h) THEN [got EXCEPT ![h] = doc] ELSE got
          /\ Done(h)
       \/ /\ Creates(h) /\ ~play.check
          /\ Fault(h) /\ UNCHANGED got
    /\ UNCHANGED <<doc, stamp, task, served>>

(* As before 2026-10-02: the rotated fields alone.                         *)
ForceWriteBare(h) ==
    /\ At(h, "force")
    /\ IF play.force # NoDoc /\ ~play.check
         THEN doc' = play.force ELSE UNCHANGED doc
    /\ Done(h)
    /\ UNCHANGED <<stamp, task, got, served>>

ForceWrite(h) ==
    /\ At(h, "force")
    /\ IF play.force # NoDoc /\ ~play.check
         THEN \/ doc' = Combine(got[h], play.force) /\ Done(h)
              \/ doc' \in {doc, Combine(got[h], play.force)} /\ Fault(h)
         ELSE UNCHANGED doc /\ Done(h)
    /\ UNCHANGED <<stamp, task, got, served>>

(* As if check mode stamped too.                                           *)
StampAnyway(h) ==
    /\ At(h, "stamp")
    /\ stamp' = IF play.force # NoDoc THEN play.force ELSE stamp
    /\ Done(h)
    /\ UNCHANGED <<doc, task, got, served>>

(* vault_secret_metadata_put: a rotation's stamp, on drift.                *)
Stamp(h) ==
    /\ At(h, "stamp")
    /\ IF play.force # NoDoc /\ ~play.check
         THEN \/ stamp' = play.force /\ Done(h)
              \/ stamp' \in {stamp, play.force} /\ Fault(h)
         ELSE UNCHANGED stamp /\ Done(h)
    /\ UNCHANGED <<doc, task, got, served>>

(* vault_secret_result; nothing is deployed with it under check mode.      *)
Publish(h) ==
    /\ At(h, "publish")
    /\ served' = IF play.check THEN served
                 ELSE [served EXCEPT ![h] = IF play.force = NoDoc THEN got[h]
                                            ELSE Combine(got[h], play.force)]
    /\ Done(h)
    /\ UNCHANGED <<doc, stamp, task, got>>

Cut ==
    /\ task # "none"
    /\ faults < MaxFaults /\ faults' = faults + 1
    /\ task' = "none" /\ todo' = {} /\ play' = Idle
    /\ UNCHANGED <<doc, stamp, got, served>>

Next ==
    \/ \E call \in Calls : Begin(call)
    \/ NextTask
    \/ Cut
    \/ \E h \in Hosts :
          \/ Read(h) \/ Initialize(h) \/ ReRead(h)
          \/ ForceWrite(h) \/ Stamp(h) \/ Publish(h)

Spec == Init /\ [][Next]_vars

------------------------------------------------------------------------------
(* The type invariant.                                                     *)
TypeOK ==
    /\ doc \in Documents \cup {NoDoc}
    /\ stamp \in Forces \cup {NoDoc}
    /\ play \in Calls
    /\ task \in Tasks
    /\ todo \in SUBSET play.hosts
    /\ got \in [Hosts -> Documents \cup {NoDoc}]
    /\ served \in [Hosts -> Documents \cup {NoDoc}]
    /\ faults \in 0 .. MaxFaults

(* Absent when this play read it, and written by its hosts since.          *)
Draft == task = "init" /\ doc # NoDoc /\ \E h \in play.hosts : got[h] = NoDoc

(* The role keeps its promise on all hosts of a play and whatever fails:   *)
(* a stored document is never created anew, the hosts that create it       *)
(* together are given one and the same, a rotation keeps the other fields. *)
Promise == INSTANCE SecretStore WITH draft <- Draft
Implements == Promise!Spec

(* "Audit trail": while nothing failed, a document that was stamped holds  *)
(* what the stamp says, also after rotations that were only previewed.     *)
StampTellsTheDocument ==
    task = "none" /\ faults = 0 /\ stamp # NoDoc =>
        doc # NoDoc /\ \A f \in DOMAIN stamp : doc[f] = stamp[f]
==============================================================================
