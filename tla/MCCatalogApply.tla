-------------------------- MODULE MCCatalogApply ---------------------------
(* Small catalogs: one entry or two of each kind a property tells apart.   *)
EXTENDS CatalogApply

Entry(section, uses, interface, protocol, port, keyed) ==
    [section |-> section, uses |-> uses, interface |-> interface,
     protocol |-> protocol, port |-> port, keyed |-> keyed]
Plain(section) == Entry(section, {}, "none", "none", FALSE, TRUE)

SlotMap == [mgmt |-> "opt2", dmz |-> "opt3"]

(* An alias, a rule using it and another, an outbound NAT rule.            *)
Alias == Plain("ALIAS")
FwEntries ==
    {Alias,
     Entry("RULE", {Alias}, "mgmt", "none", TRUE, TRUE),
     Entry("RULE", {}, "opt3", "tcp", FALSE, TRUE),
     Entry("SNAT", {}, "dmz", "any", FALSE, TRUE)}

(* A host override, and the loopback forwarder with its blank domain.      *)
DnsEntries == {Plain("DNS_HO"), Entry("DNS_FW", {}, "none", "none", FALSE, FALSE)}

(* Kea for both families, dnsmasq, router advertisements.                  *)
NetEntries ==
    {Plain("KEA4_GENERAL"), Plain("KEA4"), Plain("KEA6_GENERAL"),
     Entry("KEA6", {}, "mgmt", "none", FALSE, TRUE),
     Plain("DNSMASQ_SET"), Entry("RADVD", {}, "dmz", "none", FALSE, TRUE)}

ThreeCatalogs == {FwEntries, DnsEntries, NetEntries}
AllEntries == UNION ThreeCatalogs
Retired(e) == {e} \X {"present", "absent", "gone"}
TakenBack(e) == {e} \X {"present", "absent"}
RuleUsingAlias == CHOOSE e \in FwEntries : e.section = "RULE" /\ e.uses # {}
SomeEdits ==
    TakenBack(Alias) \cup Retired(RuleUsingAlias)
    \cup UNION {TakenBack(e) : e \in {n \in AllEntries : n.section \in {"DNS_HO", "KEA6"}}}
EveryGroup ==
    [i \in ThreeCatalogs |->
        IF i = FwEntries THEN {{}, {"fw"}}
        ELSE IF i = DnsEntries THEN {{}, {"dns"}, {"dns-ho"}, {"dns-fw"}}
        ELSE {{}, {"kea"}, {"radvd", "dnsmasq"}}]

BlocksOn ==
    [i \in ThreeCatalogs |->
        IF i = FwEntries THEN {}
        ELSE IF i = DnsEntries THEN {"unbound"}
        ELSE {"kea4", "kea6", "dnsmasq", "radvd"}]
DaemonsRun == [i \in ThreeCatalogs |-> IF i = NetEntries THEN {"radvd"} ELSE {}]

DnsOnly == {DnsEntries}
DnsGroups == [i \in DnsOnly |-> {{}, {"dns-ho"}}]
DnsBlock == [i \in DnsOnly |-> {"unbound"}]
NoDaemon == [i \in DnsOnly |-> {}]
DnsEdits == UNION {TakenBack(e) : e \in DnsEntries}
==============================================================================
