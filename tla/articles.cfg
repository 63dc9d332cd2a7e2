\* Two users in any role, one title for all articles, slugs that requests ask for.
\* The articles may stay as they are: nobody owes them a request.
SPECIFICATION Spec
CONSTANTS
  Users = {u1, u2}
  Roles <- MCRoles
  Bases = {b1}
  Texts = {t1, t2}
  None = None
  MaxSuffix = 3
  MaxArticles = 2
  MaxClock = 2
SYMMETRY MCSymmetry
CHECK_DEADLOCK FALSE
INVARIANTS
  SlugsAreUnique
  DatesFollowStatus
PROPERTIES
  FirstPublicationIsKept
  ContributorsStayWithDrafts
