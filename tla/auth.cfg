\* Two requests at a time, the bootstrap account and others, resets and restarts.
SPECIFICATION Spec
CONSTANTS
  Slots = {s1, s2}
  Boot = Boot
  Emails = {e1, e2}
  Passwords = {p1, p2}
  Roles <- MCRoles
  BootEmail = e1
  BootPassword = p1
  MaxUsers = 2
  MaxSessions = 1
SYMMETRY MCSymmetry
INVARIANTS
  OneAccountPerEmail
  SessionsMatchPassword
  ServedRoleWasHeld
  ReadinessIsTruthful
