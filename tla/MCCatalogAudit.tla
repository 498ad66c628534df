-------------------------- MODULE MCCatalogAudit ---------------------------
(* The catalogs of MCCatalogApply, and one of an alias and a rule using it *)
(* that is audited while rows are made by hand.                            *)
EXTENDS CatalogAudit, MCCatalogApply

AuditAlias == Entry("ALIAS", {}, "audited", "none", FALSE, TRUE)
AuditRule == Entry("RULE", {AuditAlias}, "mgmt", "tcp", TRUE, TRUE)
AuditEntries == {AuditAlias, AuditRule}
OneCatalog == {AuditEntries}
RuleEdits == Retired(AuditRule)
AuditSlots == [mgmt |-> "opt2"]
Nothing == [i \in OneCatalog |-> {}]
FwOnly == [i \in OneCatalog |-> {{"fw"}}]
RowsByHand ==
    {[section |-> "RULE", kind |-> "named"],
     [section |-> "SNAT", kind |-> "blank"]}

BothEntries == AllEntries \cup AuditEntries
FourCatalogs == ThreeCatalogs \cup OneCatalog
BothEdits == SomeEdits \cup RuleEdits
AndFw(onlys) == [i \in FourCatalogs |-> IF i = AuditEntries THEN {{"fw"}} ELSE onlys[i]]
AndNothing(map) == [i \in FourCatalogs |-> IF i = AuditEntries THEN {} ELSE map[i]]
EachGroup == AndFw(EveryGroup)
BlocksHere == AndNothing(BlocksOn)
DaemonsHere == AndNothing(DaemonsRun)

(* What the theorems ask of a catalog holds of these.                      *)
ASSUME CatalogsAreWellMade == WellMade /\ FilterKeyed
==============================================================================
