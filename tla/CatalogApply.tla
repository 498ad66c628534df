---------------------------- MODULE CatalogApply ----------------------------
(***************************************************************************)
(* scripts/fw_apply_direct.py: the firewall catalog of inventories/<env>/  *)
(* group_vars/opnsense.yml applied through the API of lib-opnsense, one    *)
(* ensure() per entry, section after section, never stopping at an error.  *)
(* What a run saved (rows) and what the daemons answer with (live) are two *)
(* things: Unbound and Kea read the configuration when reconfigured.       *)
(* Administrators remove and clone rows of the filter in the GUI.          *)
(*                                                                         *)
(* An entry is a record: its section, whether the library can find it by   *)
(* its match key, the aliases it uses, its interface, protocol, and if it  *)
(* has a destination port.  Its other fields are one value.                *)
(***************************************************************************)
EXTENDS Integers, Sequences, Functions

CONSTANTS
    Entries,     \* the entries the catalogs have had so far
    Inventories, \* the catalogs: sets of entries, one per environment
    Edits,       \* bound: <<entry, state>>, what the catalog's editors do
    Enabled,     \* inventory -> the blocks of the catalog with enabled: true
    Services,    \* inventory -> the daemons with service_state: running
    Slots,       \* opn_interface_map: friendly name -> slot of the firewall
    ByHand,      \* bound: the entries whose rows administrators remove or clone
    Onlys,       \* bound: inventory -> the values of --only used with it
    MaxRows,     \* bound: rows of one entry are counted up to this
    MaxFaults    \* bound: calls that fail, answers lost, runs cut off, rows
                 \* removed or cloned by hand

(* SECTION_GROUPS, the sections and steps in the order of main_async.      *)
SectionGroups == {"fw", "dns", "dns-ho", "dns-fw", "kea", "dnsmasq", "radvd"}

(* As if the rules came before the aliases they use.                       *)
RulesFirst == << "RULE", "ALIAS", "SNAT", "DNAT" >>
FwSteps == << "ALIAS", "RULE", "SNAT", "DNAT" >>
(* As if Kea were reconfigured between its two sections.                   *)
KeaEarly == << "KEA4_GENERAL", "KEA4", "KEA", "KEA6_GENERAL", "KEA6" >>
KeaSteps == << "KEA4_GENERAL", "KEA4", "KEA6_GENERAL", "KEA6", "KEA" >>
Steps == FwSteps \o
         << "DNS_HO", "DNS_FW", "UNBOUND" >>
         \o KeaSteps \o
         << "DNSMASQ_SET", "DNSMASQ_TAG", "DNSMASQ_HOST", "DNSMASQ_RANGE",
            "DNSMASQ_DOMAIN", "DNSMASQ_BOOT", "DNSMASQ_OPT", "DNSMASQ_SVC",
            "RADVD", "RADVD_SVC" >>

End == Len(Steps) + 1
KeaSections == {"KEA4_GENERAL", "KEA4", "KEA6_GENERAL", "KEA6"}
(* As if a changed forwarder did not count.                                *)
HostOverridesOnly == {"DNS_HO"}
DnsSections == {"DNS_HO", "DNS_FW"}
(* The steps that are no section: they have no entry of their own.         *)
Reconfigures == {"UNBOUND", "KEA"}
ServiceSteps == {"DNSMASQ_SVC", "RADVD_SVC"}
Sections == Range(Steps) \ (Reconfigures \cup ServiceSteps)
(* Settings, which have no state: they are there or left out of the file.  *)
Stateless == {"KEA4_GENERAL", "KEA6_GENERAL", "DNSMASQ_SET"}
States == {"present", "absent", "gone"}   \* gone: no longer in the file

(* The firewall keeps protocols in upper case, and so does the catalog but *)
(* for its filter rules.                                                   *)
Upper(p) == IF p = "tcp" THEN "TCP" ELSE IF p = "tcp/udp" THEN "TCP/UDP" ELSE p

ASSUME CatalogAssumption ==
    /\ \A e \in Entries :
           /\ e \in [section : STRING, uses : SUBSET Entries, interface : STRING,
                     protocol : STRING, port : BOOLEAN, keyed : BOOLEAN]
           /\ e.section \in Sections
           /\ e.uses \subseteq {a \in Entries : a.section = "ALIAS"}
    /\ Inventories \subseteq SUBSET Entries
    /\ Edits \subseteq Entries \X States
    /\ \A edit \in Edits : edit[1].section \in Stateless => edit[2] # "absent"
    /\ ByHand \subseteq {e \in Entries : e.section \in Range(FwSteps)}
    /\ Onlys \in [Inventories -> SUBSET SUBSET SectionGroups]
    /\ \A e \in Entries : e.section # "RULE" => e.protocol = Upper(e.protocol)
    /\ MaxRows \in Nat \ {0}
    /\ MaxFaults \in Nat

VARIABLES
    inventory,   \* the environment: its entries
    want,        \* its catalog in git: entry -> its state
    rows,        \* the firewall's configuration: entry -> rows that are it
    touched,     \* entries a hand changed the rows of since the last run that
                 \* writes began, and those a hand has left a second row
    live,        \* what the daemons serve: entry -> rows
    up,          \* the daemons running
    run,         \* the run in progress
    last,        \* the last run, dry runs apart, that exited
    passes,      \* consecutive unhindered full runs of one catalog, up to 2
    faults

vars == <<inventory, touched, want, rows, live, up, run, last, passes, faults>>

NoRun == [step |-> 0, only |-> {}, check |-> FALSE, want |-> [e \in Entries |-> "present"],
          left |-> {}, dnsChanged |-> FALSE, error |-> FALSE, faults |-> 0]

NoLast == [exit |-> "none", only |-> {}, want |-> NoRun.want]

Busy == run.step # 0
Step == Steps[run.step]

(* As if a host-override run took the forwarders along.                    *)
ForwarderGroupsWide == {"dns", "dns-ho", "dns-fw"}
ForwarderGroups == {"dns", "dns-fw"}

(* want(): the groups that select a step.                                  *)
GroupsOf(s) ==
    CASE s \in Range(FwSteps)            -> {"fw"}
      [] s = "DNS_HO"                     -> {"dns", "dns-ho"}
      [] s = "DNS_FW"                     -> ForwarderGroups
      [] s = "UNBOUND"                    -> {"dns", "dns-ho", "dns-fw"}
      [] s \in KeaSections \cup {"KEA"}   -> {"kea"}
      [] s \in {"RADVD", "RADVD_SVC"}     -> {"radvd"}
      [] OTHER                            -> {"dnsmasq"}

BlockEnabled(s) ==
    CASE s \in Range(FwSteps)                     -> TRUE
      [] s \in {"DNS_HO", "DNS_FW", "UNBOUND"}  -> "unbound" \in Enabled[inventory]
      [] s \in {"KEA4_GENERAL", "KEA4"}         -> "kea4" \in Enabled[inventory]
      [] s \in {"KEA6_GENERAL", "KEA6"}         -> "kea6" \in Enabled[inventory]
      [] s = "KEA"                              -> Enabled[inventory] \cap {"kea4", "kea6"} # {}
      [] s \in {"RADVD", "RADVD_SVC"}           -> "radvd" \in Enabled[inventory]
      [] OTHER                                  -> "dnsmasq" \in Enabled[inventory]

Selected(s, only) ==
    /\ only = {} \/ GroupsOf(s) \cap only # {}
    /\ BlockEnabled(s)

------------------------------------------------------------------------------
(* What is sent for an entry, and how the firewall takes it.               *)

SlotOf(e) == [e EXCEPT !.interface = IF @ \in DOMAIN Slots THEN Slots[@] ELSE @]

(* As if the protocol kept the catalog's case.                             *)
NormalizeRuleCased(e) ==
    [SlotOf(e) EXCEPT !.protocol =
        IF e.port /\ @ \in {"any", "none"} THEN "tcp/udp" ELSE @]

NormalizeRule(e) ==
    [SlotOf(e) EXCEPT !.protocol =
        Upper(IF e.port /\ @ \in {"any", "none"} THEN "tcp/udp" ELSE @)]

Sent(e) ==
    IF e.section = "RULE" THEN NormalizeRule(e)
    ELSE IF e.section \in {"SNAT", "KEA4", "KEA6", "RADVD"} THEN SlotOf(e)
    ELSE e

(* The row the firewall makes of it.                                       *)
Stored(p) == [p EXCEPT !.protocol = Upper(@)]

(* The library's search: by match key, comparing case-sensitively; an      *)
(* entry with a blank primary key (a catch-all forwarder) is never found.  *)
Found(e) == rows[e] > 0 /\ e.keyed /\ Sent(e) = Stored(Sent(e))

(* The firewall's own validation of a row to be added, and of an alias to  *)
(* be deleted.                                                             *)
Valid(e) ==
    /\ \A a \in e.uses : rows[a] > 0
    /\ Sent(e).interface \notin DOMAIN Slots
    /\ ~(e.port /\ Sent(e).protocol \in {"any", "none"})
InUse(e) == \E u \in Entries : rows[u] > 0 /\ e \in u.uses

Changes(e) == IF run.want[e] = "present" THEN ~Found(e) ELSE Found(e)
Refused(e) ==
    /\ Changes(e)
    /\ ~run.check
    /\ IF run.want[e] = "present" THEN ~Valid(e) ELSE InUse(e)
(* As if rows were added without end (the forwarders, run after run).      *)
MoreUnbounded(n) == n + 1
More(n) == IF n < MaxRows THEN n + 1 ELSE n
(* What is absent loses the row that was found.                            *)
Written(e) == IF run.want[e] = "present" THEN More(rows[e]) ELSE rows[e] - 1

------------------------------------------------------------------------------
Init ==
    /\ inventory \in Inventories
    /\ want = [e \in Entries |-> IF e \in inventory THEN "present" ELSE "gone"]
    /\ rows = [e \in Entries |-> 0]
    /\ touched = {}
    /\ live = rows
    /\ up = {}
    /\ run = NoRun
    /\ last = NoLast
    /\ passes = 0
    /\ faults = 0

EntriesOf(s, catalog) == {e \in Entries : e.section = s /\ catalog[e] # "gone"}

(* The next step selected after the i-th, with its entries to apply; a     *)
(* section without entries is skipped.                                     *)
Onward(r, i) ==
    LET open == {j \in i + 1 .. Len(Steps) :
                    /\ Selected(Steps[j], r.only)
                    /\ \/ Steps[j] \in Reconfigures \cup ServiceSteps
                       \/ EntriesOf(Steps[j], r.want) # {}}
        next == IF open = {} THEN End ELSE CHOOSE j \in open : \A k \in open : j <= k
    IN  [r EXCEPT !.step = next,
                  !.left = IF next = End THEN {} ELSE EntriesOf(Steps[next], r.want)]

(* The catalog is read once, as the run starts.                            *)
Begin(only, check) ==
    /\ ~Busy
    /\ touched' = IF check THEN touched ELSE {e \in touched : rows[e] > 1}
    /\ run' = Onward([NoRun EXCEPT !.only = only, !.check = check,
                                   !.want = want, !.faults = faults], 0)
    /\ UNCHANGED <<inventory, want, rows, live, up, last, passes, faults>>

(* As if an exception were logged and its result left out.                 *)
AppliedForgiving(e, changed, failed) ==
    [run EXCEPT !.left = @ \ {e},
                !.dnsChanged = @ \/ (changed /\ Step \in DnsSections)]

Applied(e, changed, failed) ==
    [run EXCEPT !.left = @ \ {e},
                !.dnsChanged = @ \/ (changed /\ Step \in DnsSections),
                !.error = @ \/ failed]

Settings == {"KEA4_GENERAL", "KEA6_GENERAL"}
Save(e, n) == rows' = [rows EXCEPT ![e] = n]

(* apply_section: ensure() of one entry.  A dry run predicts the change.   *)
(* The call may fail, or be served with its answer lost: both are errors,  *)
(* and a result with an error says nothing of a change.                    *)
Ensure(e) ==
    /\ Busy /\ e \in run.left /\ Step \notin Settings
    /\ \/ /\ ~Refused(e)
          /\ IF Changes(e) /\ ~run.check THEN Save(e, Written(e)) ELSE UNCHANGED rows
          /\ run' = Applied(e, Changes(e), FALSE)
          /\ UNCHANGED faults
       \/ /\ Refused(e)
          /\ run' = Applied(e, FALSE, TRUE)
          /\ UNCHANGED <<rows, faults>>
       \/ /\ faults < MaxFaults /\ faults' = faults + 1
          /\ rows' \in {rows, IF Changes(e) /\ ~Refused(e) /\ ~run.check
                                THEN [rows EXCEPT ![e] = Written(e)] ELSE rows}
          /\ run' = Applied(e, FALSE, TRUE)
    /\ UNCHANGED <<inventory, touched, want, live, up, last, passes>>

(* apply_kea_general: the settings are posted whatever they were; a dry    *)
(* run calls nothing.                                                      *)
PostGeneral(e) ==
    /\ Busy /\ e \in run.left /\ Step \in Settings
    /\ \/ /\ IF run.check THEN UNCHANGED rows ELSE Save(e, 1)
          /\ run' = Applied(e, FALSE, FALSE)
          /\ UNCHANGED faults
       \/ /\ ~run.check
          /\ faults < MaxFaults /\ faults' = faults + 1
          /\ rows' \in {rows, [rows EXCEPT ![e] = 1]}
          /\ run' = Applied(e, FALSE, TRUE)
    /\ UNCHANGED <<inventory, touched, want, live, up, last, passes>>

NextSection ==
    /\ Busy /\ run.step < End
    /\ run.left = {}
    /\ Step \notin Reconfigures \cup ServiceSteps
    /\ run' = Onward(run, run.step)
    /\ UNCHANGED <<inventory, touched, want, rows, live, up, last, passes, faults>>

ServedBy(s) ==
    {e \in Entries : e.section \in IF s = "UNBOUND" THEN {"DNS_HO", "DNS_FW"}
                                   ELSE KeaSections}
Reload(s) == live' = [e \in Entries |-> IF e \in ServedBy(s) THEN rows[e] ELSE live[e]]
Failed == [run EXCEPT !.error = TRUE]

(* reconfigure_unbound and reconfigure_kea, one POST that may fail.        *)
Post(s) ==
    \/ /\ IF run.check THEN UNCHANGED live ELSE Reload(s)
       /\ run' = Onward(run, run.step)
       /\ UNCHANGED faults
    \/ /\ ~run.check
       /\ faults < MaxFaults /\ faults' = faults + 1
       /\ Reload(s) \/ UNCHANGED live
       /\ run' = Onward(Failed, run.step)

(* Only if an override or a forwarder changed in this run.                 *)
ReconfigureUnbound ==
    /\ Busy /\ run.step < End /\ Step = "UNBOUND"
    /\ IF run.dnsChanged THEN Post("UNBOUND")
       ELSE UNCHANGED <<live, faults>> /\ run' = Onward(run, run.step)
    /\ UNCHANGED <<inventory, touched, want, rows, up, last, passes>>

(* Unconditional, once for both Kea services.                              *)
ReconfigureKea ==
    /\ Busy /\ run.step < End /\ Step = "KEA"
    /\ Post("KEA")
    /\ UNCHANGED <<inventory, touched, want, rows, up, last, passes>>

(* The service control of dnsmasq and radvd, if service_state is set.      *)
ControlService ==
    /\ Busy /\ run.step < End /\ Step \in ServiceSteps
    /\ LET d == IF Step = "RADVD_SVC" THEN "radvd" ELSE "dnsmasq"
       IN  \/ /\ d \notin Services[inventory]
              /\ run' = Onward(run, run.step) /\ UNCHANGED <<up, faults>>
           \/ /\ d \in Services[inventory]
              /\ up' = IF run.check THEN up ELSE up \cup {d}
              /\ run' = Onward(run, run.step) /\ UNCHANGED faults
           \/ /\ d \in Services[inventory]
              /\ faults < MaxFaults /\ faults' = faults + 1
              /\ run' = Onward(Failed, run.step) /\ UNCHANGED up
    /\ UNCHANGED <<inventory, touched, want, rows, live, last, passes>>

Unhindered == run.only = {} /\ run.faults = faults /\ touched = {}

(* summarize, and the exit code.                                           *)
Finish ==
    /\ run.step = End
    /\ IF run.check THEN UNCHANGED <<last, passes>>
       ELSE /\ last' = [exit |-> IF run.error THEN "error" ELSE "ok",
                        only |-> run.only, want |-> run.want]
            /\ passes' = IF ~Unhindered THEN 0
                         ELSE IF passes = 0 \/ run.want # last.want THEN 1 ELSE 2
    /\ run' = NoRun
    /\ UNCHANGED <<inventory, touched, want, rows, live, up, faults>>

(* The run is cut off, or its connection cannot be opened.                 *)
Cut ==
    /\ Busy
    /\ faults < MaxFaults /\ faults' = faults + 1
    /\ last' = [NoLast EXCEPT !.exit = "cut"]
    /\ passes' = 0
    /\ run' = NoRun
    /\ UNCHANGED <<inventory, touched, want, rows, live, up>>

(* The catalog is edited: an entry is retired, later dropped from the file *)
(* or taken back, and none is left that uses an alias no longer present.   *)
Edit(e, state) ==
    /\ want' = [want EXCEPT ![e] = state]
    /\ e \in inventory
    /\ \A u \in Entries : want'[u] = "present" => \A a \in u.uses : want'[a] = "present"
    /\ UNCHANGED <<inventory, touched, rows, live, up, run, last, passes, faults>>

(* An administrator removes a row in the GUI, which refuses to remove an   *)
(* alias in use, or clones one, which it refuses of an alias: its name is  *)
(* taken.                                                                  *)
Meddle(e) ==
    /\ rows[e] > 0
    /\ \/ ~InUse(e) /\ Save(e, rows[e] - 1)
       \/ e.section # "ALIAS" /\ Save(e, More(rows[e]))
    /\ touched' = touched \cup {e}
    /\ passes' = 0
    /\ faults < MaxFaults /\ faults' = faults + 1
    /\ UNCHANGED <<inventory, want, live, up, run, last>>

Work ==
    \/ \E e \in Entries : Ensure(e) \/ PostGeneral(e)
    \/ NextSection \/ ReconfigureUnbound \/ ReconfigureKea
    \/ ControlService \/ Finish

Next ==
    \/ \E only \in Onlys[inventory], check \in BOOLEAN : Begin(only, check)
    \/ Work
    \/ Cut
    \/ \E e \in ByHand : Meddle(e)
    \/ \E edit \in Edits : Edit(edit[1], edit[2])

Spec == Init /\ [][Next]_vars

------------------------------------------------------------------------------
TypeOK ==
    /\ inventory \in Inventories
    /\ want \in [Entries -> States]
    /\ rows \in [Entries -> 0 .. MaxRows]
    /\ touched \subseteq Entries
    /\ live \in [Entries -> 0 .. MaxRows]
    /\ up \subseteq {"dnsmasq", "radvd"}
    /\ run \in [step : 0 .. End, only : SUBSET SectionGroups, check : BOOLEAN,
                want : [Entries -> States], left : SUBSET Entries,
                dnsChanged : BOOLEAN, error : BOOLEAN, faults : 0 .. MaxFaults]
    /\ last \in [exit : {"none", "ok", "error", "cut"}, only : SUBSET SectionGroups,
                 want : [Entries -> States]]
    /\ passes \in 0 .. 2
    /\ faults \in 0 .. MaxFaults

(* The last run wrote, over s, and exited 0.                               *)
Succeeded(s) == ~Busy /\ last.exit = "ok" /\ Selected(s, last.only)

(* A run that exits 0 left every entry of its scope as its catalog had it, *)
(* though it goes on after an error and each section depends on others:    *)
(* "any outcome error => 1".  Rows removed by hand before it began came    *)
(* back; those touched since, or left double by hand, are another matter.  *)
ExitZeroMeansApplied ==
    /\ \A e \in Entries \ touched : Succeeded(e.section) =>
           /\ last.want[e] = "present" => rows[e] > 0
           /\ last.want[e] = "absent" /\ e.keyed => rows[e] = 0
    /\ Succeeded("RADVD_SVC") /\ "radvd" \in Services[inventory] => "radvd" \in up

(* However often it is applied, cut off or unanswered, an entry that has a *)
(* match key is never added twice (normalize_rule: a case mismatch         *)
(* "creates duplicates"): a second row is a hand's.                        *)
NoDuplicates == \A e \in Entries \ touched : e.keyed => rows[e] <= 1

(* --only: a step of a run changes no section it was not asked for; the    *)
(* forwarders "never as a side effect of a host-override apply".           *)
StaysInScope ==
    [][\A e \in Entries : rows'[e] # rows[e] /\ run' # run =>
           /\ Selected(e.section, run.only)
           /\ e.section = "DNS_FW" => run.only = {} \/ run.only \cap {"dns", "dns-fw"} # {}
      ]_vars

(* --check: "Dry-run (no API writes)", whatever earlier runs left pending. *)
DryRunWritesNothing ==
    [][Busy /\ run.check /\ run' # run => UNCHANGED <<rows, live, up>>]_vars

(* A run over Kea that exits 0 leaves Kea serving what is saved, also what *)
(* an earlier run saved and could not activate; while no call failed and   *)
(* no run was cut off, the same holds of Unbound.                          *)
SavedIsServed ==
    /\ Succeeded("KEA") => \A e \in ServedBy("KEA") : live[e] = rows[e]
    /\ Succeeded("UNBOUND") /\ faults = 0 => \A e \in ServedBy("UNBOUND") : live[e] = rows[e]

(* Catalogs the firewall's own validation takes: what uses aliases is a    *)
(* rule the library finds again, the aliases are in the same catalog, an   *)
(* interface is in the map and a port goes with a protocol that has one.   *)
WellMade ==
    /\ \A i \in Inventories : \A e \in i : e.uses \subseteq i
    /\ \A e \in Entries :
           /\ e.uses # {} => e.section \in Range(FwSteps) \ {"ALIAS"} /\ e.keyed
           /\ Sent(e).interface \notin DOMAIN Slots
           /\ ~(e.port /\ Sent(e).protocol \in {"any", "none"})

(* A full run nothing hinders succeeds at once if nothing is retired, and  *)
(* at the second time otherwise: the aliases come first, so one retired    *)
(* with its rules is refused until they are gone.  (A rule dropped from    *)
(* the file is never removed, and keeps its alias.)                        *)
RepeatedApplySucceeds ==
    ~Busy /\ \/ passes = 2 /\ \A e \in Entries : last.want[e] = "gone" => rows[e] = 0
             \/ passes = 1 /\ \A e \in inventory : last.want[e] = "present"
    => last.exit = "ok"

(* reconfigure_unbound: "Activate pending Unbound changes": they are       *)
(* served once a run over the section says it succeeded.                   *)
DnsServedAfterSuccess ==
    Succeeded("UNBOUND") => \A e \in ServedBy("UNBOUND") : live[e] = rows[e]
==============================================================================
