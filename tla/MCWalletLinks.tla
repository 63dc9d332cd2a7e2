--------------------------- MODULE MCWalletLinks ----------------------------
(* Instances of WalletLinks for model checking. *)
EXTENDS WalletLinks, TLC

MCSymmetry == Permutations(Users) \cup Permutations(Addresses)
=============================================================================
