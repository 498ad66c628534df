------------------------- MODULE MCSentinelRotation --------------------------
(* Sentinels are interchangeable.                                          *)
EXTENDS SentinelRotation, TLC
HostSymmetry == Permutations(Hosts)
==============================================================================
