SPECIFICATION AuditSpec
CONSTANTS
  Entries <- AuditEntries
  Inventories <- OneCatalog
  Edits <- RuleEdits
  Enabled <- Nothing
  Services <- Nothing
  Slots <- AuditSlots
  ByHand = {}
  Onlys <- FwOnly
  MaxRows = 2
  MaxFaults = 1
  Strays <- RowsByHand
  Audited <- OneCatalog
INVARIANTS ExitZeroMeansClean
