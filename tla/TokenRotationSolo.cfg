SPECIFICATION FairSpec
CONSTANTS
  NoKey = NoKey
  OobKey = OobKey
  k0 = k1
  Runs = {r1}
  Keys = {k1, k2, k3, k4, k5}
  GenFile = NoKey
  GenDocs <- AnyGenesis
  Policies <- FullPolicy
  Tier = "prod"
  MaxStops = 2
INVARIANTS TypeOK OneKeyAtRest UncutCopiesFollow
PROPERTIES OnlyStaleRevoked FailureIsRepaired
