---------------------------- MODULE MCVaultSecret ----------------------------
(* A document with a user, which stays, and a password, which is drawn.    *)
EXTENDS VaultSecret, TLC
CONSTANTS Passwords, Svc
FullDocuments == {[user |-> Svc, password |-> p] : p \in Passwords}
Rotations == [{"password"} -> Passwords]
AllDocuments == FullDocuments \cup Rotations
AllSymmetry == Permutations(Hosts) \cup Permutations(Passwords)
==============================================================================
