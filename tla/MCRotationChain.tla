--------------------------- MODULE MCRotationChain ---------------------------
(* Small instances of RotationChain.                                       *)
EXTENDS RotationChain

DriftingPolicy == {{"read", "write"}, {}}
BreakGlassOnly == {OobKey}

==============================================================================
