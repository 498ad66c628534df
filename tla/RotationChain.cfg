SPECIFICATION ChainSpec
CONSTANTS
  NoKey = NoKey
  OobKey = OobKey
  Runs = {chain}
  Chain = chain
  Keys = {k1, k2, k3, k4, k5, k6, k7}
  GenFile = NoKey
  GenDocs <- BreakGlassOnly
  Policies <- DriftingPolicy
  Tier = "prod"
  MaxStops = 1
  MaxFaults = 1
INVARIANTS SuccessMeansUsable FailureIsTold
PROPERTIES RefreshedByTheGate PassesEnd
