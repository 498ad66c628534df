SPECIFICATION Spec
CONSTANTS
  Entries <- DnsEntries
  Inventories <- DnsOnly
  Edits <- DnsEdits
  Enabled <- DnsBlock
  Services <- NoDaemon
  Slots <- SlotMap
  ByHand = {}
  Onlys <- DnsGroups
  MaxRows = 2
  MaxFaults = 1
INVARIANTS DnsServedAfterSuccess
