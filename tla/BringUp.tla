------------------------------- MODULE BringUp -------------------------------
(***************************************************************************)
(* What an operator runs by hand on a firewall that was built: the         *)
(* break-glass administrator, the DNS chain, the gates, one script at a    *)
(* time.  A gate that asks for the proxy sees what the DNS chain left.     *)
(***************************************************************************)
EXTENDS OobAdmin, FirewallGates

VARIABLE about   \* bound: what a behaviour is about, "oob", "dns", "net"

all == <<oob, dns, gates, about>>

Init ==
    /\ OobInit /\ DnsInit /\ GatesInit
    /\ about \in {"oob", "dns", "net"}
    /\ about # "dns" => unbound.catchall /\ ~unbound.forwarding /\ proxy.servers

Outside == AddForwarders \/ EditByHand \/ ProxyCrash
Asking == gate.at # "idle"

(* Where the subject is the DNS chain the rest of the firewall is sound    *)
(* and the health gate is called with everything asked for.                *)
Plain == [kind |-> "health", wan2 |-> TRUE, proximus |-> TRUE, kea |-> TRUE, ispFile |-> TRUE,
          json |-> FALSE]

Next ==
    \/ about = "oob" /\ OobNext /\ UNCHANGED <<dns, gates, about>>
    \/ /\ about = "dns" /\ (IF Asking THEN Outside ELSE DnsNext)
       /\ UNCHANGED <<oob, net, flips, gate, verdict, broken, about>> /\ Watch
    \/ /\ about = "dns" /\ plan = << >> /\ GateStep /\ net' = net /\ gate'.flags = Plain
       /\ UNCHANGED <<oob, dns, about>> /\ Watch
    \/ /\ about = "net" /\ GateStep
       /\ UNCHANGED <<oob, dns, about>> /\ Watch
    \/ /\ about = "net" /\ ProxyCrash
       /\ UNCHANGED <<oob, net, flips, gate, verdict, broken, about>> /\ Watch
Spec == Init /\ [][Next]_all

------------------------------------------------------------------------------
(* The domains of all three parts; entries are left to switch off exactly  *)
(* while a run is at that stage, and only a user there is has keys.        *)
TypeOK == OobTypeOK /\ DnsTypeOK /\ GateTypeOK

(* The DNS chain's script does not stop at a proxy that does not start,    *)
(* and the health gate does not ask where queries go; the two together do: *)
(* after a full run whose posts were all taken, the gate is green only if  *)
(* queries leave through a proxy that runs the catalog's settings, the     *)
(* forwarders being there.                                                 *)
GreenGateChains ==
    [][about = "dns" /\ ReadServices /\ verdict' = "exit 0" /\ faults \subseteq {"part", "down", "cut"} =>
           /\ resolver.catchall => Route(resolver) = {"chain"}
           /\ proxy = [general |-> TRUE, servers |-> TRUE, runs |-> TRUE]
      ]_all
==============================================================================
