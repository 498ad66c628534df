SPECIFICATION Spec
CONSTANTS
  NoKey = NoKey
  OobKey = OobKey
  k0 = k1
  Runs = {r1, r2}
  Keys = {k1, k2, k3, k4, k5}
  GenFile = NoKey
  GenDocs <- BreakGlassOnly
  Policies <- DriftingPolicy
  Tier = "test"
  MaxStops = 1
SYMMETRY AllSymmetry
INVARIANTS ServedAtRest RefusedTokenIsNoticed FewKeys
