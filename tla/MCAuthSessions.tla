--------------------------- MODULE MCAuthSessions ---------------------------
(* Instances of AuthSessions for model checking.  OWNER stands for the two *)
(* roles that may change roles, USER for the three that may not.           *)
EXTENDS AuthSessions, TLC

MCRoles == {"OWNER", "USER"}
MCSymmetry == Permutations(Slots)
=============================================================================
