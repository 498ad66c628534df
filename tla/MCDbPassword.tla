---------------------------- MODULE MCDbPassword -----------------------------
EXTENDS DbPassword, TLC
PlaySymmetry == Permutations(Plays) \cup Permutations(Passwords)
==============================================================================
