----------------------------- MODULE MCArticles -----------------------------
(* Instances of Articles for model checking.  One role stands for the three *)
(* of the staff, which the module does not tell apart.                      *)
EXTENDS Articles, TLC

MCRoles == {"EDITOR", "CONTRIBUTOR", "USER"}
MCSymmetry == Permutations(Users) \cup Permutations(Texts)
=============================================================================
