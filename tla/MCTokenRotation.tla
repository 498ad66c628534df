--------------------------- MODULE MCTokenRotation ---------------------------
(* Small instances of TokenRotation: keys and plays are interchangeable.   *)
EXTENDS TokenRotation, TLC

CONSTANTS k0

FullPolicy == {{"read", "write"}}
DriftingPolicy == {{"read", "write"}, {}}
BreakGlassOnly == {OobKey}
AnyGenesis == {NoKey, OobKey, k0}

KeySymmetry == Permutations(Keys)
PlaySymmetry == Permutations(Runs)
AllSymmetry == Permutations(Keys) \cup Permutations(Runs)

==============================================================================
