SPECIFICATION Spec
CONSTANTS
  MaxMade = 4
  Dots = {d1, d2}
  Env = "test"
  Interfaces = {"MGMT"}
  Daemons = {"unbound", "kea-dhcp"}
  Vlans = {"svc", "dmz"}
  Probes4 = {"svc"}
  Probes6 = {"svc"}
  Slots = {"svc"}
  Flags <- SomeFlags
  MaxFlips = 2
INVARIANTS TypeOK DoneMeansUsable FullRunChains ChainAnswers VerdictIsHonest
PROPERTIES GreenGateChains
