--------------------------- MODULE FirewallGates ----------------------------
(***************************************************************************)
(* The two scripts that say whether a firewall is good.                    *)
(* scripts/fw_verify_health.py ("health") reads interfaces, gateways and   *)
(* services one after the other and exits 0 if no check failed;            *)
(* scripts/fw_validate.py ("catalog") reads the ARP table, the NDP table,  *)
(* radvd's status, then its entries, and judges them all in the end.  The  *)
(* firewall goes on changing meanwhile.  What the checks tell apart of an  *)
(* address: whose it is, whether this environment's is a part of its text, *)
(* and of a foreign one whether it ends like prod's, or has that end in it.*)
(***************************************************************************)
EXTENDS DnsChain

CONSTANTS
    Env,        \* "prod", "test"
    Interfaces, \* EXPECTED_IFACES
    Daemons,    \* required_services, without the proxy
    Vlans,      \* VLANS
    Probes4, Probes6,   \* those the catalog has a probe alias for
    Slots,      \* interfaces the catalog enables radvd on
    Flags,      \* bound: how the scripts are called
    MaxFlips    \* bound: changes of the firewall

Kea == "kea-dhcp"

FlagSet == [kind : {"health", "catalog"}, wan2 : BOOLEAN, proximus : BOOLEAN, kea : BOOLEAN,
            ispFile : BOOLEAN,   \* the addresses of the second WAN are at hand
            json : BOOLEAN]
ASSUME GatesFacts ==
    /\ Flags \subseteq FlagSet /\ \A f \in Flags : f.json => f.kind = "catalog"
    /\ Probes4 \cup Probes6 \subseteq Vlans /\ Env \in {"prod", "test"}
    /\ "dnscrypt-proxy" \notin Daemons /\ MaxFlips \in Nat

VARIABLES
    net,        \* the firewall as it is
    flips,      \* changes so far
    gate,       \* the script under way: [at, flags, failed]
    verdict,    \* exit status of the last, "none" while one is under way
    broken,     \* a read of it was not answered
    mayPass, mayFail   \* parts that were so, at some time since it began

gates == <<net, flips, gate, verdict, broken, mayPass, mayFail>>

NetSet ==
    [down : SUBSET Interfaces,                                    \* not up, or not assigned
     wan1 : {"down", "bare", "private", "public", "public172"},   \* up with which address
     wan2 : {"down", "up"},
     v4 : {"prod", "test", "suffix", "none"},                     \* suffix: foreign, in .222
     v6 : {"prod", "test", "longer", "suffix", "none"},           \* longer: ours is a part of
                                                                  \* it; suffix: foreign, ::5
     gateways : {"up", "down", "unlisted"},
     services : [Daemons -> SUBSET BOOLEAN],                      \* rows of that name
     arp : SUBSET Vlans, ndp : SUBSET Vlans,                      \* probes seen
     radvd : BOOLEAN, slots : SUBSET (Slots \cup {"other"})]

Sound ==
    [down |-> {}, wan1 |-> "public", wan2 |-> "up", v4 |-> Env, v6 |-> Env, gateways |-> "up",
     services |-> [d \in Daemons |-> {TRUE}], arp |-> Vlans, ndp |-> Vlans, radvd |-> TRUE,
     slots |-> Slots]
Uncalled == [kind |-> "catalog", wan2 |-> FALSE, proximus |-> FALSE, kea |-> FALSE,
             ispFile |-> FALSE, json |-> TRUE]

GatesInit ==
    /\ net = Sound /\ flips = 0 /\ gate = [at |-> "idle", flags |-> Uncalled, failed |-> {}] /\ verdict = "none" /\ broken = FALSE
    /\ mayPass = {} /\ mayFail = {}

(* The address checks: by the file, else by how prod's ends; the IPv6      *)
(* address by a part of its text.                                          *)
V4Passes(n, f) == n.v4 \in IF f.ispFile THEN {Env} ELSE {"prod", "suffix"}
V6Passes(n, f) ==
    n.v6 \in IF f.ispFile THEN {Env, "longer"}
             ELSE {"prod", "suffix"} \cup (IF Env = "prod" THEN {"longer"} ELSE {})

(* run, 1 to 3: names of the checks that fail.                             *)
InterfaceFails(n, f) ==
    n.down
    \cup {x \in {"wan1 up", "wan1 public"} :
             /\ f.proximus
             /\ IF x = "wan1 up" THEN n.wan1 = "down" ELSE n.wan1 # "public"}
    \cup {x \in {"wan2 up", "wan2 v4", "wan2 v6"} :
             /\ f.wan2
             /\ \/ x = "wan2 up" /\ n.wan2 = "down"
                \/ x = "wan2 v4" /\ ~V4Passes(n, f)
                \/ x = "wan2 v6" /\ ~V6Passes(n, f)}
(* 4: no listed gateway is down.                                           *)
GatewayFails(n) == {x \in {"gateways"} : n.gateways = "down"}
(* 5: of the rows of a name, one that runs is enough; no row is down.      *)
RequiredAlways(f) == Daemons
Required(f) == IF f.kea THEN Daemons ELSE Daemons \ {Kea}
Running(n) == {d \in Daemons : TRUE \in n.services[d]}
                \cup (IF proxy.runs THEN {"dnscrypt-proxy"} ELSE {})
ServiceFails(n, f) == (Required(f) \cup {"dnscrypt-proxy"}) \ Running(n)

(* validate: what fails; an entry too many, a missing alias only warn.     *)
ArpFails(n) == Probes4 \ n.arp
NdpFails(n) == Probes6 \ n.ndp
RadvdFails(n) == {x \in {"radvd"} : ~n.radvd}
EntriesFail(n) == Slots \ n.slots

Begin(f) ==
    /\ gate.at = "idle"
    /\ gate' = [at |-> IF f.kind = "health" THEN "interfaces" ELSE "arp", flags |-> f, failed |-> {}]
    /\ verdict' = "none" /\ broken' = FALSE
    /\ UNCHANGED <<net, flips>>

Read(at, next, fails) ==
    /\ gate.at = at
    /\ gate' = [gate EXCEPT !.at = next, !.failed = @ \cup fails]
    /\ UNCHANGED <<net, flips, verdict, broken>>
(* As if the rows of the last group were reported.                         *)
ReportLast(at, fails) ==
    /\ gate.at = at
    /\ gate' = [gate EXCEPT !.at = "idle", !.failed = {}]
    /\ verdict' = IF fails = {} \/ gate.flags.json THEN "exit 0" ELSE "exit 1"
    /\ UNCHANGED <<net, flips, broken>>
(* Gate.report, and the end of validate: 0 if nothing failed; --json skips *)
(* the checks.                                                             *)
Report(at, fails) ==
    /\ gate.at = at
    /\ gate' = [gate EXCEPT !.at = "idle", !.failed = {}]
    /\ verdict' = IF gate.failed \cup fails = {} \/ gate.flags.json THEN "exit 0" ELSE "exit 1"
    /\ UNCHANGED <<net, flips, broken>>

ReadInterfaces == Read("interfaces", "gateways", InterfaceFails(net, gate.flags))
ReadGateways == Read("gateways", "services", GatewayFails(net))
ReadServices == Report("services", ServiceFails(net, gate.flags))
ReadArp == Read("arp", "ndp", ArpFails(net))
ReadNdp == Read("ndp", "radvd", NdpFails(net))
ReadRadvd == Read("radvd", "entries", RadvdFails(net))
ReadEntries == Report("entries", EntriesFail(net))

(* A read that is not answered: of the interfaces, or in fw_validate, it   *)
(* ends the script; else it is a failed check.                             *)
ReadFails ==
    /\ gate.at # "idle" /\ broken' = TRUE
    /\ IF gate.at = "gateways"
       THEN gate' = [gate EXCEPT !.at = "services", !.failed = @ \cup {"reachable"}] /\ UNCHANGED verdict
       ELSE gate' = [gate EXCEPT !.at = "idle", !.failed = {}] /\ verdict' = "exit 1"
    /\ UNCHANGED <<net, flips>>

(* A change of one thing of the firewall.                                  *)
Flip ==
    /\ flips < MaxFlips /\ flips' = flips + 1
    /\ \/ \E i \in Interfaces : net' = [net EXCEPT !.down = IF i \in @ THEN @ \ {i} ELSE @ \cup {i}]
       \/ \E w \in {"down", "bare", "private", "public", "public172"} : net' = [net EXCEPT !.wan1 = w]
       \/ \E w \in {"down", "up"} : net' = [net EXCEPT !.wan2 = w]
       \/ \E a \in {"prod", "test", "suffix", "none"} : net' = [net EXCEPT !.v4 = a]
       \/ \E a \in {"prod", "test", "longer", "suffix", "none"} : net' = [net EXCEPT !.v6 = a]
       \/ \E g \in {"up", "down", "unlisted"} : net' = [net EXCEPT !.gateways = g]
       \/ \E d \in Daemons, rows \in SUBSET BOOLEAN : net' = [net EXCEPT !.services[d] = rows]
       \/ \E v \in Vlans : net' \in {[net EXCEPT !.arp = @ \ {v}], [net EXCEPT !.arp = @ \cup {v}],
                                     [net EXCEPT !.ndp = @ \ {v}], [net EXCEPT !.ndp = @ \cup {v}]}
       \/ net' = [net EXCEPT !.radvd = ~@]
       \/ \E s \in Slots \cup {"other"} : net' = [net EXCEPT !.slots = IF s \in @ THEN @ \ {s} ELSE @ \cup {s}]
    /\ net' # net
    /\ UNCHANGED <<gate, verdict, broken>>

GateStep ==
    \/ \E f \in Flags : Begin(f)
    \/ ReadInterfaces \/ ReadGateways \/ ReadServices
    \/ ReadArp \/ ReadNdp \/ ReadRadvd \/ ReadEntries
    \/ ReadFails \/ Flip

------------------------------------------------------------------------------
(* The parts of a good firewall, as the scripts' texts have them, and when *)
(* the checks cannot tell: without its addresses test is held against      *)
(* prod's, and a foreign address that ends like prod's passes; an address  *)
(* that contains ours passes for it; every 172. counts as private; a       *)
(* gateway that is not listed is not down.                                 *)
GoodIs(x, n, f) ==
    CASE x = "interfaces" -> n.down = {}
      [] x = "wan1"       -> n.wan1 \in {"public", "public172"}
      [] x = "wan2"       -> n.wan2 = "up" /\ n.v4 = Env /\ n.v6 = Env
      [] x = "gateways"   -> n.gateways = "up"
      [] x = "services"   -> \A d \in Daemons : (d = Kea /\ ~f.kea) \/ TRUE \in n.services[d]
      [] x = "proxy"      -> proxy.runs
      [] x = "arp"        -> Probes4 \subseteq n.arp
      [] x = "ndp"        -> Probes6 \subseteq n.ndp
      [] x = "radvd"      -> n.radvd
      [] x = "entries"    -> Slots \subseteq n.slots
Untold(x, n, f) ==
    \/ x = "wan1" /\ n.wan1 = "public172"
    \/ /\ x = "wan2"
       /\ n.v6 = "longer" \/ (~f.ispFile /\ (Env # "prod" \/ "suffix" \in {n.v4, n.v6}))
    \/ x = "gateways" /\ n.gateways = "unlisted"
Asked(f) ==
    IF f.kind = "health"
    THEN {"interfaces", "gateways", "services", "proxy"}
         \cup (IF f.proximus THEN {"wan1"} ELSE {}) \cup (IF f.wan2 THEN {"wan2"} ELSE {})
    ELSE IF f.json THEN {} ELSE {"arp", "ndp", "radvd", "entries"}
Pass(n, f) == {x \in Asked(f) : GoodIs(x, n, f) \/ Untold(x, n, f)}
Fail(n, f) == {x \in Asked(f) : ~GoodIs(x, n, f) \/ Untold(x, n, f)}

(* Kept by every step of the system.                                       *)
Watch ==
    IF gate'.at = "idle" THEN UNCHANGED <<mayPass, mayFail>>
    ELSE /\ mayPass' = (IF gate.at = "idle" THEN {} ELSE mayPass) \cup Pass(net, gate.flags)'
         /\ mayFail' = (IF gate.at = "idle" THEN {} ELSE mayFail) \cup Fail(net, gate.flags)'

GateTypeOK ==
    /\ net \in NetSet
    /\ flips \in 0 .. MaxFlips
    /\ gate.at \in {"idle", "interfaces", "gateways", "services",
                  "arp", "ndp", "radvd", "entries"}
    /\ gate.flags \in Flags \cup {Uncalled}
    /\ verdict \in IF gate.at = "idle" THEN {"none", "exit 0", "exit 1"} ELSE {"none"}
    /\ broken \in BOOLEAN
    /\ mayPass \cup mayFail \subseteq Asked(gate.flags)

(* "The objective pass/fail checks that decide whether a firewall is       *)
(* GOOD", "the ground-truth check": exit 0 means that each part asked for  *)
(* was good at some time while the script ran, not that all of them were   *)
(* at one time; exit 1 that one was bad meanwhile, or a read unanswered.   *)
VerdictIsHonest ==
    /\ verdict = "exit 0" => mayPass = Asked(gate.flags)
    /\ verdict = "exit 1" => broken \/ mayFail # {}
==============================================================================
