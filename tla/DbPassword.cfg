SPECIFICATION Spec
CONSTANTS
  NoPw = NoPw
  Plays = {p1, p2}
  Passwords = {w1, w2, w3, w4, w5, w6}
  MaxCuts = 2
SYMMETRY PlaySymmetry
INVARIANTS VaultIsTheTruth DeployedMeansUsable
