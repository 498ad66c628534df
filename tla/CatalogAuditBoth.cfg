SPECIFICATION AuditSpec
CONSTANTS
  Entries <- BothEntries
  Inventories <- FourCatalogs
  Edits <- BothEdits
  Enabled <- BlocksHere
  Services <- DaemonsHere
  Slots <- SlotMap
  ByHand <- AuditEntries
  Onlys <- EachGroup
  MaxRows = 2
  MaxFaults = 1
  Strays <- RowsByHand
  Audited <- OneCatalog
INVARIANTS TypeOK ExitZeroMeansApplied NoDuplicates RepeatedApplySucceeds SavedIsServed CleanMeansNamed 
PROPERTIES StaysInScope
