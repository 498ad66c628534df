------------------------------ MODULE DnsChain ------------------------------
(***************************************************************************)
(* scripts/fw_chain_phase1_apply.py: moves the firewall's resolver from    *)
(* DNS over TLS to the local dnscrypt proxy, in stages; --only runs a part *)
(* of them.  A stage posts, prints the answer and goes on, the first post  *)
(* excepted.  A call that is not answered ends the run; the run may be cut *)
(* off.  Saved settings count once the service is reconfigured.            *)
(***************************************************************************)
EXTENDS Naturals, Sequences

CONSTANT Dots   \* forwarding entries of Unbound on port 853

VARIABLES
    dnscrypt,   \* [general, servers]: settings saved as the catalog has them
    proxy,      \* the settings it runs with, or Down
    unbound,    \* settings saved: [forwarding, dot (enabled), catchall]
    resolver,   \* those it runs with
    plan,       \* stages the run has before it
    left,       \* entries the run has still to disable
    slips,      \* what went wrong in this run
    faults      \* since the last full run that came to its end, and in it

dns == <<dnscrypt, proxy, unbound, resolver, plan, left, slips, faults>>

Down == [general |-> FALSE, servers |-> FALSE, runs |-> FALSE]
(* As if the proxy were restarted before it has its servers.               *)
ServersLast ==
    <<"general", "restart", "servers", "forwarding", "list", "reconfigure", "end">>
(* As if Unbound were switched over first.                                 *)
UnboundFirst == <<"forwarding", "list", "reconfigure", "general", "servers", "restart", "end">>
Full == <<"general", "servers", "restart", "forwarding", "list", "reconfigure", "end">>
(* --only: one stage of the help text, or a group of them.                 *)
Parts == {<<"general", "servers">>, <<"restart">>, <<"forwarding">>, <<"list">>, <<"reconfigure">>,
          <<"general", "servers", "restart">>, <<"forwarding", "list", "reconfigure">>}
(* No full run ended yet; part of the stages asked for; a post refused or  *)
(* the settings changed by hand; the proxy not up; a run cut off.          *)
Slips == {"unrun", "part", "astray", "down", "cut"}
Settings == [forwarding : BOOLEAN, dot : SUBSET Dots, catchall : BOOLEAN]

(* What the proxy does when it is (re)started: nothing if not enabled.     *)
Started ==
    IF dnscrypt.general THEN [general |-> TRUE, servers |-> dnscrypt.servers, runs |-> TRUE] ELSE Down

DnsInit ==
    /\ dnscrypt \in {[general |-> b, servers |-> b] : b \in BOOLEAN}
    /\ proxy \in {Down, Started}
    /\ unbound \in {s \in Settings : s.dot = Dots}
    /\ resolver = unbound
    /\ plan = << >> /\ left = {} /\ slips = {} /\ faults = {"unrun"}

Slip(S) == slips' = slips \cup S /\ faults' = faults \cup S
(* The proxy came up, or it did not.                                       *)
Brought ==
    IF proxy'.runs THEN slips' = slips \ {"down"} /\ faults' = faults \ {"down"} ELSE Slip({"down"})

(* main, without --apply: every gate says no (plan stays empty).           *)
DnsBegin(stages) ==
    /\ plan = << >>
    /\ plan' = stages
    /\ slips' = {}
    /\ faults' = faults \cup (IF stages \in {Full, <<"general", "servers", "restart">>} THEN {} ELSE {"part"})
    /\ UNCHANGED <<dnscrypt, proxy, unbound, resolver, left>>

At(stage) == plan # << >> /\ Head(plan) = stage
Go == plan' = Tail(plan)

(* Step 2: the one answer that ends the run.                               *)
SetGeneral(ok) ==
    /\ At("general")
    /\ IF ok THEN Go /\ dnscrypt' = [dnscrypt EXCEPT !.general = TRUE] /\ Slip({})
             ELSE plan' = << >> /\ Slip({"astray"}) /\ UNCHANGED dnscrypt
    /\ UNCHANGED <<proxy, unbound, resolver, left>>

SetServers(ok) ==
    /\ At("servers") /\ Go
    /\ IF ok THEN dnscrypt' = [dnscrypt EXCEPT !.servers = TRUE] /\ Slip({})
             ELSE Slip({"astray"}) /\ UNCHANGED dnscrypt
    /\ UNCHANGED <<proxy, unbound, resolver, left>>

(* Step 3: restarted, asked whether it runs, started if not; what it says  *)
(* then is printed.                                                        *)
Restart(ok) ==
    /\ At("restart")
    /\ proxy' = IF ok THEN Started ELSE Down
    /\ plan' = IF proxy' = Down THEN <<"start">> \o Tail(plan) ELSE Tail(plan)
    /\ Brought
    /\ UNCHANGED <<dnscrypt, unbound, resolver, left>>
RestartRefused ==
    /\ At("restart") /\ UNCHANGED proxy
    /\ plan' = IF proxy = Down THEN <<"start">> \o Tail(plan) ELSE Tail(plan)
    /\ Slip({"astray"})
    /\ UNCHANGED <<dnscrypt, unbound, resolver, left>>
Start(ok) ==
    /\ At("start") /\ Go
    /\ proxy' = IF ok THEN Started ELSE Down
    /\ Brought
    /\ UNCHANGED <<dnscrypt, unbound, resolver, left>>

(* As if step 4 switched the forwarding on, as its name has it.            *)
ForwardingOn(ok) ==
    /\ At("forwarding") /\ Go
    /\ unbound' = [unbound EXCEPT !.forwarding = @ \/ ok]
    /\ Slip(IF ~ok THEN {"astray"} ELSE {})
    /\ UNCHANGED <<dnscrypt, proxy, resolver, left>>
(* Step 4: off, so that the catch-all entries count.                       *)
ForwardingOff(ok) ==
    /\ At("forwarding") /\ Go
    /\ unbound' = [unbound EXCEPT !.forwarding = @ /\ ~ok]
    /\ Slip(IF unbound'.forwarding THEN {"astray"} ELSE {})
    /\ UNCHANGED <<dnscrypt, proxy, resolver, left>>

(* As if there were always an entry.                                       *)
ListSome ==
    /\ At("list")
    /\ left' = unbound.dot
    /\ plan' = <<"drop">> \o Tail(plan)
    /\ UNCHANGED <<dnscrypt, proxy, unbound, resolver, slips, faults>>
(* Step 5: the enabled entries on port 853, switched off one by one, or    *)
(* deleted if that is refused.                                             *)
ListDots ==
    /\ At("list")
    /\ left' = unbound.dot
    /\ plan' = IF left' = {} THEN Tail(plan) ELSE <<"drop">> \o Tail(plan)
    /\ UNCHANGED <<dnscrypt, proxy, unbound, resolver, slips, faults>>
DropDot(d, ok) ==
    /\ At("drop") /\ d \in left
    /\ left' = left \ {d}
    /\ plan' = IF left' = {} THEN Tail(plan) ELSE plan
    /\ unbound' = [unbound EXCEPT !.dot = IF ok THEN @ \ {d} ELSE @]
    /\ Slip(IF ~ok THEN {"astray"} ELSE {})
    /\ UNCHANGED <<dnscrypt, proxy, resolver>>

(* Step 6.                                                                 *)
Reconfigure(ok) ==
    /\ At("reconfigure") /\ Go
    /\ resolver' = IF ok THEN unbound ELSE resolver
    /\ Slip(IF ~ok THEN {"astray"} ELSE {})
    /\ UNCHANGED <<dnscrypt, proxy, unbound, left>>

(* Step 7 only looks.                                                      *)
DnsEnd ==
    /\ At("end") /\ Go
    /\ faults' = slips
    /\ UNCHANGED <<dnscrypt, proxy, unbound, resolver, left, slips>>

(* An answer is lost after or before the call took effect, or the run is   *)
(* killed.                                                                 *)
DnsCut ==
    /\ plan # << >> /\ plan' = << >> /\ left' = {}
    /\ Slip({"cut"})
    /\ UNCHANGED <<dnscrypt, proxy, unbound, resolver>>

(* fw_apply_direct.py --only dns-fw: the two forwarders to the proxy.      *)
AddForwarders ==
    /\ ~unbound.catchall
    /\ unbound' = [unbound EXCEPT !.catchall = TRUE]
    /\ resolver' = unbound'
    /\ UNCHANGED <<dnscrypt, proxy, plan, left, slips, faults>>

(* In the interface: an entry on again, or the forwarding.                 *)
EditByHand ==
    /\ unbound' \in {[unbound EXCEPT !.dot = @ \cup {d}] : d \in Dots}
                    \cup {[unbound EXCEPT !.forwarding = TRUE]}
    /\ unbound' # unbound
    /\ resolver' = unbound'
    /\ Slip({"astray"})
    /\ UNCHANGED <<dnscrypt, proxy, plan, left>>

ProxyCrash ==
    /\ proxy # Down /\ proxy' = Down
    /\ Slip({"down"})
    /\ UNCHANGED <<dnscrypt, unbound, resolver, plan, left>>

DnsNext ==
    \/ \E stages \in Parts \cup {Full} : DnsBegin(stages)
    \/ \E ok \in BOOLEAN :
           \/ SetGeneral(ok) \/ SetServers(ok) \/ Restart(ok) \/ Start(ok)
           \/ ForwardingOff(ok) \/ Reconfigure(ok)
           \/ \E d \in Dots : DropDot(d, ok)
    \/ RestartRefused \/ ListDots \/ DnsEnd \/ DnsCut
    \/ AddForwarders \/ EditByHand \/ ProxyCrash
DnsSpec == DnsInit /\ [][DnsNext]_dns

------------------------------------------------------------------------------
DnsTypeOK ==
    /\ dnscrypt \in [general : BOOLEAN, servers : BOOLEAN]
    /\ proxy \in [general : BOOLEAN, servers : BOOLEAN, runs : BOOLEAN]
    /\ unbound \in Settings /\ resolver \in Settings
    /\ plan \in Seq({"start", "drop"} \cup {Full[i] : i \in DOMAIN Full})
    /\ left \subseteq Dots /\ (left # {} <=> At("drop"))
    /\ slips \subseteq Slips /\ faults \subseteq Slips

(* Where queries go: with the generic forwarding to the WAN's resolvers,   *)
(* else to the entries there are, else to the root servers.                *)
Route(s) ==
    IF s.forwarding THEN {"wan"}
    ELSE IF s.dot = {} /\ ~s.catchall THEN {"roots"}
    ELSE {"dot" : d \in s.dot} \cup (IF s.catchall THEN {"chain"} ELSE {})
Answers == proxy.runs /\ proxy.general

(* "Unbound -> dnscrypt-proxy": once a full run came to its end with no    *)
(* post refused, until one is or someone changes it by hand, no query      *)
(* leaves by the old ways; further runs, whole, in part or cut off, do not *)
(* undo it.                                                                *)
FullRunChains ==
    faults \subseteq {"part", "down", "cut"} => Route(resolver) \in {{"chain"}, {"roots"}}

(* "with a verification gate after each" step: wherever a run is cut off,  *)
(* Unbound never depends on a proxy that does not answer, if no start      *)
(* failed, no post was refused and --only did not start with Unbound.      *)
(* (The gates print; nothing stops at them, so a failed start does lead    *)
(* there.)                                                                 *)
ChainAnswers ==
    faults \subseteq {"unrun", "cut"} /\ Route(resolver) = {"chain"} => Answers
==============================================================================
